---- MODULE Spec2Model ----
(***************************************************************************)
(* Protective fetch pipeline of public_finance_data_hub:                   *)
(*   core/rate_limiter.py  RequestRateLimiter, DelayedRequester,           *)
(*                         ExponentialBackoffRetry, CombinedRateLimiter    *)
(*   core/cache.py         APICache                                        *)
(*   sources/base_source.py BaseSource._fetch_with_protection              *)
(*                                                                         *)
(* Time is the wall clock in milliseconds (time.time() and datetime.now()  *)
(* read the same clock).  Jitter factors are in thousandths, so that       *)
(* base * 2^attempt * jitter is exact integer arithmetic.                  *)
(***************************************************************************)
EXTENDS Integers, Sequences, FiniteSets, TLC

VARIABLES
    now,              \* wall clock, ms
    \* RequestRateLimiter
    max_requests,     \* self.max_requests
    requests,         \* self.requests, deque(maxlen = max_requests)
    admitted,         \* history: every timestamp wait_if_needed ever recorded
    sleep_time,       \* value returned by the last wait_if_needed
    \* DelayedRequester
    last_request_time,
    \* ExponentialBackoffRetry
    max_retries, base_delay, max_delay,
    \* APICache / BaseSource.cache
    has_cache,        \* BaseSource.cache is not None
    enabled,          \* APICache.enabled
    default_ttl,      \* APICache.default_ttl, ms
    files,            \* cache_dir: cache key -> file content
    \* the call in progress
    pc,               \* position of the caller's thread
    call,             \* arguments of the call in progress
    attempt,          \* loop variable of execute_with_retry
    last_exception,   \* local of execute_with_retry
    data,             \* local of _fetch_with_protection / value on its way out
    outcome,          \* how the call in progress ended
    trace,            \* history: steps of the call in progress, in order
    sleeps,           \* history: backoff sleeps of the call in progress
    pre,              \* history: state snapshot taken when the call started
    prev,             \* history: summary of the previous finished call
    ncalls,           \* number of calls started
    nticks,           \* number of clock advances between calls
    \* DataLake: the directory trees under base_dir
    raw_dir,          \* self.raw_dir
    curated_dir,      \* self.curated_dir
    manifest_dir,     \* self.manifest_dir
    \* connectors and command line
    api_key,          \* FREDConnector.api_key is set
    token,            \* ANBIMAConnector.token (0 = None)
    token_expires_at, \* ANBIMAConnector.token_expires_at
    issued,           \* number of tokens the OAuth server has issued
    remote,           \* Google Drive: the files below self.folder_id
    thr,              \* threads that share one RequestRateLimiter
    sources_to_ingest,\* local of the ingest command
    src_idx,          \* position of its loop over sources_to_ingest
    success_count,    \* local of the ingest command
    error_count       \* local of the ingest command

vars == <<now, max_requests, requests, admitted, sleep_time, last_request_time,
          max_retries, base_delay, max_delay, has_cache, enabled,
          default_ttl, files, pc, call, attempt, last_exception, data, outcome, trace, sleeps,
          pre, prev, ncalls, nticks, raw_dir, curated_dir, manifest_dir,
          api_key, token, token_expires_at, issued, remote, thr, sources_to_ingest, src_idx, success_count,
          error_count>>

limiterVars == <<max_requests, requests, admitted, sleep_time>>
retryCfg    == <<max_retries, base_delay, max_delay>>
cacheCfg    == <<has_cache, enabled, default_ttl>>
callVars    == <<pc, call, attempt, last_exception, data, outcome, trace,
                 sleeps, pre, prev, ncalls>>
lakeVars    == <<raw_dir, curated_dir, manifest_dir>>
cliVars     == <<sources_to_ingest, src_idx, success_count, error_count>>
authVars    == <<token, token_expires_at, issued>>
appVars     == <<api_key, authVars, remote, thr, cliVars>>

(***************************************************************************)
(* Bounds of the model                                                     *)
(***************************************************************************)
MaxRequestsBound == 3      \* max_requests_per_minute ranges over 1..this
MaxAdmits        == 4      \* admissions recorded in one behaviour
MaxTicks         == 4      \* clock advances between calls in one behaviour
MaxRetriesBound  == 4      \* max_retries ranges over 0..this
MaxCalls         == 2      \* fetches started in one behaviour
MaxRetryCalls    == 1      \* direct execute_with_retry calls in one behaviour
MaxAttempt       == 8      \* get_delay is applied to attempts 0..this
MaxSets          == 2      \* direct cache.set calls in one behaviour
MaxCacheTicks    == 2      \* clock advances between cache calls
MaxFetchTicks    == 1      \* clock advances between fetches
MaxErrCalls      == 2      \* set calls and fetches in one behaviour with bad params
MaxManifests     == 3      \* save_manifest calls in one behaviour
MaxManifestTicks == 2      \* clock advances between save_manifest calls
MaxIngests       == 3      \* ingestion runs and direct save_raw calls in one behaviour
MaxCuratedSaves  == 2      \* save_curated calls in one behaviour
MaxRawSaves      == 3      \* save_raw calls in one behaviour
MaxIngestTicks   == 1      \* clock advances during the ingestion runs

(***************************************************************************)
(* Program constants                                                       *)
(***************************************************************************)
WINDOW_MS  == 60000        \* "now - 60" / "60 - (now - ...)"
EPSILON_MS == 100          \* "+ 0.1"
MIN_DELAY_MS == 1000       \* min_delay_seconds = 1.0
MAX_DELAY_MS == 3000       \* max_delay_seconds = 3.0

None == [t |-> "none", v |-> 0, n |-> 0]      \* Python None

Min(a, b) == IF a <= b THEN a ELSE b

\* a directory tree: the directories and the files below its root, each
\* named by its path from the root (a sequence of segments)
EmptyTree == [dirs |-> {}, files |-> <<>>]

\* DataLake.__init__: the three roots are created empty
EmptyLake ==
    raw_dir = EmptyTree /\ curated_dir = EmptyTree /\ manifest_dir = EmptyTree

\* no connector, Drive folder, second thread or command in use
IdleApp ==
    /\ api_key = FALSE /\ token = 0 /\ token_expires_at = 0 /\ issued = 0
    /\ remote = <<>> /\ thr = <<>>
    /\ sources_to_ingest = <<>> /\ src_idx = 0
    /\ success_count = 0 /\ error_count = 0

(***************************************************************************)
(* Python values that a fetch function can return.  A value is a record    *)
(* [t, v, n]: t its type, v its content, n unused (0) except for errors.   *)
(***************************************************************************)
PyDict(k) == [t |-> "dict",  v |-> k, n |-> 0]  \* dict of str -> JSON values
PyTuple   == [t |-> "tuple", v |-> 1, n |-> 0]  \* a tuple of JSON values
PyList    == [t |-> "list",  v |-> 1, n |-> 0]  \* the list with the same items
PyBytes   == [t |-> "bytes", v |-> 1, n |-> 0]  \* bytes: not JSON serializable

OpPayloads == {PyDict(1), PyDict(2), None, PyTuple, PyBytes}

RECURSIVE Pow2(_)
Pow2(n) == IF n = 0 THEN 1 ELSE 2 * Pow2(n - 1)

(***************************************************************************)
(* RequestRateLimiter                                                      *)
(***************************************************************************)

\* faulty variant: a timestamp exactly 60 seconds old is evicted too
RECURSIVE EvictAtWindow(_, _)
EvictAtWindow(q, t) ==
    IF q # <<>> /\ Head(q) <= t - WINDOW_MS THEN EvictAtWindow(Tail(q), t) ELSE q

\* while self.requests and self.requests[0] < now - 60: popleft()
RECURSIVE Evict(_, _)
Evict(q, t) ==
    IF q # <<>> /\ Head(q) < t - WINDOW_MS THEN Evict(Tail(q), t) ELSE q

\* deque(maxlen = n).append(x): a full deque drops its leftmost element
DequeAppend(q, x, n) ==
    IF n = 0 THEN <<>>
    ELSE IF Len(q) >= n THEN Append(Tail(q), x)
    ELSE Append(q, x)

\* faulty variant: sleeps for the age of the oldest timestamp, not for what is left of
\* its 60 seconds
SleepTimeElapsed(q, t) == (t - Head(q)) + EPSILON_MS

\* faulty variant: sleeps for what is left of the 60 seconds without the 0.1 s
SleepTimeNoEpsilon(q, t) == WINDOW_MS - (t - Head(q))

\* sleep_time = 60 - (now - self.requests[0]) + 0.1
SleepTime(q, t) == WINDOW_MS - (t - Head(q)) + EPSILON_MS

\* faulty variant: waits only when the window holds more than max_requests entries
WaitForOver(q, t) == IF Len(q) > max_requests THEN SleepTime(q, t) ELSE 0

\* The wait computed by wait_if_needed at clock t on window q (already evicted)
WaitFor(q, t) == IF Len(q) >= max_requests THEN SleepTime(q, t) ELSE 0

\* wait_if_needed(); late = time by which time.sleep() overshoots and the
\* second time.time() reading lags the first
wait_if_needed(late) ==
    LET q  == Evict(requests, now)
        w  == WaitFor(q, now)
        t2 == now + w + late
    IN  /\ now' = t2
        /\ requests' = DequeAppend(q, t2, max_requests)
        /\ admitted' = Append(admitted, t2)
        /\ sleep_time' = w
        /\ UNCHANGED max_requests

Lateness == {0, 1}

(***************************************************************************)
(* Specification of the rate limiter on its own: serialized admissions     *)
(***************************************************************************)
NoCall == [op |-> "none"]
NoPre  == [now |-> 0, requests |-> <<>>, files |-> <<>>, nadmitted |-> 0]
NoPrev == [valid |-> FALSE]

NoOutcome == [kind |-> "none", x |-> None]

IdleCall ==
    /\ pc = "idle" /\ call = NoCall /\ attempt = 0 /\ last_exception = None
    /\ data = None /\ outcome = NoOutcome /\ trace = <<>> /\ sleeps = <<>>
    /\ pre = NoPre /\ prev = NoPrev /\ ncalls = 0

InitLimiter ==
    /\ now = 0
    /\ max_requests \in 1..MaxRequestsBound
    /\ requests = <<>> /\ admitted = <<>> /\ sleep_time = 0
    /\ last_request_time = 0
    /\ max_retries = 3 /\ base_delay = 1000 /\ max_delay = 60000
    /\ has_cache = FALSE /\ enabled = FALSE /\ files = <<>>
    /\ default_ttl = 0
    /\ IdleCall
    /\ nticks = 0
    /\ EmptyLake
    /\ IdleApp

TickDeltasL == {30000, 60000, 60001}

\* time passes between two admissions
TickL ==
    /\ \E d \in TickDeltasL : now' = now + d
    /\ nticks < MaxTicks
    /\ nticks' = nticks + 1
    /\ UNCHANGED <<limiterVars, last_request_time, retryCfg, cacheCfg, lakeVars, appVars, files, callVars>>

\* one caller runs wait_if_needed to completion
Admit ==
    /\ Len(admitted) < MaxAdmits
    /\ \E late \in Lateness : wait_if_needed(late)
    /\ UNCHANGED <<last_request_time, retryCfg, cacheCfg, lakeVars, appVars, files, callVars, nticks>>

NextLimiter == TickL \/ Admit

SpecLimiter == InitLimiter /\ [][NextLimiter]_vars

\* number of recorded admissions in the closed window [t - 60 s, t]
InWindow(t) ==
    Cardinality({i \in 1..Len(admitted) :
                    admitted[i] >= t - WINDOW_MS /\ admitted[i] <= t})

\* C1: with serialized wait_if_needed calls and max_requests >= 1, no trailing
\* 60-second window (ending at any instant) holds more than max_requests
\* recorded admissions.  The count over a window is largest when the window
\* ends at an admission, so it is enough to look at those.
C1_RateBound ==
    \A i \in 1..Len(admitted) : InWindow(admitted[i]) <= max_requests

\* C1 witness: the limiter was full, slept, and the window again holds
\* exactly max_requests admissions
C1_Witness ==
    /\ sleep_time > 0
    /\ Len(admitted) > max_requests
    /\ InWindow(admitted[Len(admitted)]) = max_requests

\* the timestamps of the window that are no older than 60 seconds at clock t
Fresh(q, t) == SelectSeq(q, LAMBDA x : x >= t - WINDOW_MS)

\* a step in which one wait_if_needed call ran
C21_AdmitStep == Len(admitted') = Len(admitted) + 1

C21_Admission ==
    LET q     == Fresh(requests, now)
        stamp == admitted'[Len(admitted')]
    IN  /\ (sleep_time' = 0) <=> (Len(q) < max_requests)
        /\ sleep_time' = 0 => now' - now \in Lateness
        /\ Len(q) >= max_requests =>
              /\ sleep_time' = WINDOW_MS - (now - q[1]) + EPSILON_MS
              /\ now' - now - sleep_time' \in Lateness
        /\ requests' = Append(IF Len(q) < max_requests THEN q ELSE Tail(q), stamp)
        /\ admitted' = Append(admitted, stamp)
        /\ stamp = now' /\ stamp >= now + sleep_time'

\* C21: wait_if_needed returns 0 without sleeping exactly when the window,
\* after eviction of the timestamps older than 60 s, holds fewer than
\* max_requests entries; otherwise it sleeps for and returns
\* 60 - (now - oldest) + 0.1 s; either way it records exactly one new
\* timestamp, read after the sleep.
C21_AdmissionResult == [][C21_AdmitStep => C21_Admission]_vars

\* C21 witness: one call was admitted at once and a later one slept, with
\* an older timestamp evicted in between
C21_Witness ==
    /\ sleep_time > 0 /\ sleep_time < WINDOW_MS
    /\ max_requests = 2
    /\ Len(admitted) = 4
    /\ admitted[3] - admitted[1] > WINDOW_MS
    /\ requests = <<admitted[3], admitted[4]>>

\* C33: for max_requests >= 1 and serialized callers a wait_if_needed call
\* sleeps at most once (the time it takes is that one sleep plus the lateness
\* of the clock readings); when the window is full the requested sleep is
\* greater than 0 and at most 60 s + 0.1 s, the oldest timestamp it waits on
\* being at most 60 s old
C33_BoundedWait ==
    [][C21_AdmitStep =>
         LET q == Fresh(requests, now)
         IN  /\ sleep_time' >= 0 /\ sleep_time' <= WINDOW_MS + EPSILON_MS
             /\ now' - now - sleep_time' \in Lateness
             /\ Len(q) >= max_requests =>
                   /\ sleep_time' > 0
                   /\ now - q[1] >= 0 /\ now - q[1] <= WINDOW_MS
                   /\ sleep_time' = WINDOW_MS - (now - q[1]) + EPSILON_MS]_vars

\* a call that waited on a timestamp exactly 60 s old, and so slept 0.1 s
C33_Witness ==
    /\ sleep_time = EPSILON_MS
    /\ Len(admitted) >= 2
    /\ max_requests >= 1


(***************************************************************************)
(* ExponentialBackoffRetry                                                 *)
(***************************************************************************)

\* values of random.uniform(0.9, 1.1), in thousandths
Jitters == {900, 950, 1000, 1100}

\* what one invocation of the operation can do: return a payload or raise
\* an Exception; the n-th invocation's error object carries n
ErrorKinds == {1, 2}
Exc(k, i) == [t |-> "exc", v |-> k, n |-> i]
TypeErrorRaiseNone == [t |-> "TypeError", v |-> 0, n |-> 0]

\* faulty variant: the min(delay, self.max_delay) line is missing
get_delay_uncapped(a, j) == (base_delay * Pow2(a) * j) \div 1000

\* faulty variant: the delay does not grow with the attempt
get_delay_flat(a, j) == Min(base_delay * j, max_delay * 1000) \div 1000

\* get_delay(attempt) with jitter = j / 1000
get_delay(a, j) ==
    LET delay == base_delay * Pow2(a) * j              \* ms / 1000
    IN  Min(delay, max_delay * 1000) \div 1000

\* faulty variant: gives up one attempt early
IsLastAttemptEarly(a) == a = max_retries - 2

\* faulty variant: compares with max_retries, so the last failure also sleeps
IsLastAttemptLate(a) == a = max_retries

\* if attempt == self.max_retries - 1
IsLastAttempt(a) == a = max_retries - 1

\* faulty variant: the loop runs for attempt = 0 .. max_retries
InRangeInclusive(a) == a <= max_retries

\* for attempt in range(self.max_retries)
InRange(a) == a < max_retries

Ev(e, x) == [ev |-> e, x |-> x]

\* number of events e in the trace of the call in progress
Count(e) == Cardinality({i \in 1..Len(trace) : trace[i].ev = e})

\* the i-th event e of the trace
Nth(e, i) ==
    LET idx == {k \in 1..Len(trace) :
                   trace[k].ev = e
                   /\ Cardinality({m \in 1..k : trace[m].ev = e}) = i}
    IN  trace[CHOOSE k \in idx : TRUE]

\* a caller invokes retry.execute_with_retry(func) directly
CallRetry ==
    /\ pc = "idle"
    /\ ncalls < MaxRetryCalls
    /\ ncalls' = ncalls + 1
    /\ call' = [op |-> "execute_with_retry", url |-> 0, params |-> <<>>,
                use_cache |-> FALSE]
    /\ pre' = [now |-> now, requests |-> requests, files |-> files,
               nadmitted |-> Len(admitted)]
    /\ trace' = <<>> /\ sleeps' = <<>>
    /\ outcome' = NoOutcome /\ data' = None
    /\ attempt' = 0 /\ last_exception' = None
    /\ pc' = "retry"
    /\ UNCHANGED <<now, limiterVars, last_request_time, retryCfg, cacheCfg, lakeVars, appVars,
                   files, prev, nticks>>

\* execute_with_retry, entry: last_exception = None; the range(max_retries)
\* loop; with an empty range control falls to "raise last_exception"
RetryEnter ==
    /\ pc = "retry"
    /\ last_exception' = None
    /\ attempt' = 0
    /\ IF InRange(0)
       THEN /\ pc' = "attempt"
            /\ UNCHANGED outcome
       ELSE /\ pc' = "done"
            /\ outcome' = [kind |-> "raise", x |-> TypeErrorRaiseNone]
    /\ UNCHANGED <<now, limiterVars, last_request_time, retryCfg, cacheCfg, lakeVars, appVars,
                   files, call, data, trace, sleeps, pre, prev, ncalls, nticks>>

\* the loop body, succeeding: return func(*args, **kwargs)
AttemptReturns(p) ==
    /\ trace' = Append(trace, Ev("op", p))
    /\ IF call.op = "fetch"
       THEN /\ data' = p
            /\ pc' = "cache_set"
            /\ UNCHANGED outcome
       ELSE /\ outcome' = [kind |-> "return", x |-> p]
            /\ pc' = "done"
            /\ UNCHANGED data
    /\ UNCHANGED <<now, attempt, last_exception, sleeps>>

\* the loop body, failing: except Exception as e
AttemptRaises(e, J) ==
    /\ last_exception' = e
    /\ IF IsLastAttempt(attempt)
       THEN /\ outcome' = [kind |-> "raise", x |-> e]        \* raise
            /\ trace' = Append(trace, Ev("op", e))
            /\ pc' = "done"
            /\ UNCHANGED <<now, attempt, sleeps>>
       ELSE \E j \in J :
              LET delay == get_delay(attempt, j)
              IN  /\ sleeps' = Append(sleeps, [attempt |-> attempt,
                                               jitter |-> j, delay |-> delay])
                  /\ trace' = Append(Append(trace, Ev("op", e)),
                                     Ev("backoff", None))
                  /\ now' = now + delay                       \* time.sleep
                  /\ attempt' = attempt + 1
                  /\ IF InRange(attempt + 1)
                     THEN /\ pc' = "attempt"
                          /\ UNCHANGED outcome
                     ELSE /\ pc' = "done"       \* raise last_exception
                          /\ outcome' = [kind |-> "raise", x |-> e]
    /\ UNCHANGED data


\* one iteration of the loop of execute_with_retry: invoke func, then
\* return its value, or record the error and raise it or sleep and go on;
\* func returns a payload of P or raises an error of a kind of K, and the
\* jitter of the backoff is drawn from J
Attempt(P, K, J) ==
    /\ pc = "attempt"
    /\ \/ \E p \in P : AttemptReturns(p)
       \/ \E k \in K : AttemptRaises(Exc(k, Count("op") + 1), J)
    /\ UNCHANGED <<limiterVars, last_request_time, retryCfg, cacheCfg, lakeVars, appVars, files,
                   call, pre, prev, ncalls, nticks>>

RetryAttempt ==
    /\ call.op = "execute_with_retry"
    /\ Attempt(OpPayloads, ErrorKinds, Jitters)

\* the call returns or raises to its caller
Finish ==
    /\ pc = "done"
    /\ pc' = "idle"
    /\ prev' = IF call.op = "fetch"
               THEN [valid |-> TRUE, url |-> call.url, params |-> call.params,
                     use_cache |-> call.use_cache, kind |-> outcome.kind,
                     x |-> outcome.x, miss |-> Count("admit") > 0,
                     end |-> now]
               ELSE prev
    /\ call' = NoCall /\ attempt' = 0 /\ last_exception' = None
    /\ data' = None /\ outcome' = NoOutcome /\ trace' = <<>> /\ sleeps' = <<>>
    /\ pre' = NoPre
    /\ UNCHANGED <<now, limiterVars, last_request_time, retryCfg, cacheCfg, lakeVars, appVars,
                   files, ncalls, nticks>>

(***************************************************************************)
(* Specification of the retrier on its own                                 *)
(***************************************************************************)
BaseDelays == {500, 1000}       \* base_delay_seconds = 0.5, 1.0 (default)
MaxDelays  == {3000, 60000}     \* max_delay_seconds  = 3.0, 60.0 (default)

InitRetry ==
    /\ now = 0
    /\ max_requests = 1 /\ requests = <<>> /\ admitted = <<>> /\ sleep_time = 0
    /\ last_request_time = 0
    /\ max_retries \in 0..MaxRetriesBound
    /\ base_delay \in BaseDelays
    /\ max_delay \in MaxDelays
    /\ has_cache = FALSE /\ enabled = FALSE /\ files = <<>>
    /\ default_ttl = 0
    /\ IdleCall
    /\ nticks = 0
    /\ EmptyLake
    /\ IdleApp

NextRetry == CallRetry \/ RetryEnter \/ RetryAttempt \/ Finish

SpecRetry == InitRetry /\ [][NextRetry]_vars

\* every invocation recorded so far raised
AllFailed == \A i \in 1..Len(trace) : trace[i].ev = "op" => trace[i].x.t = "exc"

\* C6: for max_retries = N >= 1, when execute_with_retry ends after the
\* operation failed on every invocation, the operation was invoked exactly N
\* times and the error raised is the error object of the N-th invocation
C6_RetryExhaustion ==
    (pc = "done" /\ call.op = "execute_with_retry" /\ max_retries >= 1
        /\ AllFailed)
    => /\ Count("op") = max_retries
       /\ outcome.kind = "raise"
       /\ outcome.x = Nth("op", max_retries).x
       /\ outcome.x.n = max_retries

\* C6 witness: three failed invocations with max_retries = 3
C6_Witness ==
    /\ pc = "done" /\ call.op = "execute_with_retry" /\ max_retries = 3
    /\ AllFailed /\ Count("op") = 3 /\ outcome.kind = "raise"

\* C7: when the operation fails k < max_retries times and then succeeds,
\* execute_with_retry returns that result after exactly k + 1 invocations and
\* exactly k sleeps, the i-th sleep (i = 0..k-1) being get_delay(i); and a run
\* that exhausts its attempts has slept max_retries - 1 times, none of them
\* after the last failure
C7_RetryUntilSuccess ==
    (pc = "done" /\ call.op = "execute_with_retry" /\ max_retries >= 1)
    => /\ Count("op") >= 1
       /\ \A i \in 1..(Count("op") - 1) : Nth("op", i).x.t = "exc"
       /\ Len(sleeps) = Count("op") - 1
       /\ \A i \in 1..Len(sleeps) :
             /\ sleeps[i].attempt = i - 1
             /\ sleeps[i].delay = get_delay(i - 1, sleeps[i].jitter)
       /\ Nth("op", Count("op")).x.t # "exc"
          => /\ outcome = [kind |-> "return", x |-> Nth("op", Count("op")).x]
             /\ Count("op") <= max_retries
       /\ Nth("op", Count("op")).x.t = "exc"
          => /\ Count("op") = max_retries
             /\ trace[Len(trace)].ev = "op"

\* C7 witness: two failures of different kinds, then a success
C7_Witness ==
    /\ pc = "done" /\ call.op = "execute_with_retry"
    /\ Count("op") = 3 /\ Len(sleeps) = 2
    /\ Nth("op", 1).x.t = "exc" /\ Nth("op", 2).x.t = "exc"
    /\ Nth("op", 1).x.v # Nth("op", 2).x.v
    /\ outcome.kind = "return"


\* C36: with max_retries = 0 execute_with_retry invokes the operation zero
\* times, never sleeps and ends by raising, not by returning a value; for
\* max_retries >= 1 an error that execute_with_retry raises is the error
\* raised by one of the invocations of the operation
C36_ZeroAttempts ==
    (pc = "done" /\ call.op = "execute_with_retry") =>
        /\ max_retries = 0 =>
              /\ Count("op") = 0
              /\ sleeps = <<>> /\ Count("backoff") = 0 /\ now = pre.now
              /\ outcome.kind = "raise"
              /\ outcome.x.t # "exc"
        /\ (max_retries >= 1 /\ outcome.kind = "raise") =>
              \E i \in 1..Len(trace) :
                  /\ trace[i].ev = "op"
                  /\ trace[i].x.t = "exc"
                  /\ trace[i].x = outcome.x

\* C36 witness: a run with max_retries = 0 that ended with the TypeError of
\* "raise None"
C36_Witness ==
    /\ pc = "done" /\ call.op = "execute_with_retry"
    /\ max_retries = 0
    /\ outcome = [kind |-> "raise", x |-> TypeErrorRaiseNone]
    /\ trace = <<>>


(***************************************************************************)
(* Specification of get_delay as a pure function of (attempt, jitter)      *)
(***************************************************************************)
InitBackoff ==
    /\ InitRetry
    /\ max_retries = 3

\* delay = self.get_delay(a), the jitter drawn being j / 1000
ApplyGetDelay ==
    /\ \E a \in 0..MaxAttempt, j \in Jitters :
          sleeps' = <<[attempt |-> a, jitter |-> j, delay |-> get_delay(a, j)]>>
    /\ UNCHANGED <<now, limiterVars, last_request_time, retryCfg, cacheCfg, lakeVars, appVars,
                   files, pc, call, attempt, last_exception, data, outcome,
                   trace, pre, prev, ncalls, nticks>>

NextBackoff == ApplyGetDelay

SpecBackoff == InitBackoff /\ [][NextBackoff]_vars

\* base_delay * 2^a * j, in ms / 1000
RawDelay(a, j) == base_delay * Pow2(a) * j

\* C8: get_delay(a) with jitter factor j in [0.9, 1.1] is
\* min(base_delay * 2^a * j, max_delay): at most max_delay, and at least
\* min(0.9 * base_delay * 2^a, max_delay)
C8_BackoffCap ==
    \A i \in 1..Len(sleeps) :
        LET s == sleeps[i]
        IN  /\ s.delay <= max_delay
            /\ s.delay * 1000 >= Min(RawDelay(s.attempt, 900), max_delay * 1000)
            /\ RawDelay(s.attempt, s.jitter) <= max_delay * 1000
                  => s.delay * 1000 = RawDelay(s.attempt, s.jitter)
            /\ RawDelay(s.attempt, s.jitter) > max_delay * 1000
                  => s.delay = max_delay

\* C8 witness: a delay that the cap cut down to max_delay
C8_Witness ==
    /\ sleeps # <<>>
    /\ RawDelay(sleeps[1].attempt, sleeps[1].jitter) > max_delay * 1000
    /\ sleeps[1].delay = max_delay


(***************************************************************************)
(* Specification of two consecutive backoff delays, each with a jitter of  *)
(* its own                                                                 *)
(***************************************************************************)
\* delay = self.get_delay(a) and then delay = self.get_delay(a + 1), as two
\* consecutive failed attempts of one run compute them
ApplyGetDelayTwice ==
    /\ \E a \in 0..MaxAttempt, j1 \in Jitters, j2 \in Jitters :
          sleeps' = <<[attempt |-> a, jitter |-> j1, delay |-> get_delay(a, j1)],
                      [attempt |-> a + 1, jitter |-> j2,
                       delay |-> get_delay(a + 1, j2)]>>
    /\ UNCHANGED <<now, limiterVars, last_request_time, retryCfg, cacheCfg, lakeVars, appVars,
                   files, pc, call, attempt, last_exception, data, outcome,
                   trace, pre, prev, ncalls, nticks>>

NextMonotone == ApplyGetDelayTwice

SpecMonotone == InitBackoff /\ [][NextMonotone]_vars

\* C37: for base_delay > 0, every attempt a >= 0 and any two jitter factors
\* in [0.9, 1.1], get_delay(a + 1) >= get_delay(a); two consecutive sleeps of
\* a run are therefore non-decreasing, and a sleep of max_delay is followed
\* by a sleep of max_delay
C37_BackoffMonotone ==
    (Len(sleeps) = 2 /\ base_delay > 0) =>
        /\ sleeps[2].attempt = sleeps[1].attempt + 1
        /\ sleeps[2].delay >= sleeps[1].delay
        /\ sleeps[1].delay = max_delay => sleeps[2].delay = max_delay

\* C37 witness: the largest jitter followed by the smallest one, below the
\* cap: the delay still grows
C37_Witness ==
    /\ Len(sleeps) = 2
    /\ sleeps[1].jitter = 1100 /\ sleeps[2].jitter = 900
    /\ sleeps[2].delay < max_delay
    /\ sleeps[2].delay > sleeps[1].delay


(***************************************************************************)
(* APICache                                                                *)
(***************************************************************************)

\* Request parameters: None, or a dict as the sequence of its items in
\* insertion order.  Names 1, 2 stand for two parameter names in their
\* lexicographic order.
PNone       == [none |-> TRUE,  items |-> <<>>]
PDict(its)  == [none |-> FALSE, items |-> its]
ItemA == <<1, 7>>
ItemB == <<2, 8>>

Ident(u, ps) == [url |-> u, params |-> ps]
Identities ==
    {Ident(1, PNone), Ident(1, PDict(<<>>)),
     Ident(1, PDict(<<ItemA, ItemB>>)), Ident(1, PDict(<<ItemB, ItemA>>)),
     Ident(2, PDict(<<ItemA>>))}

\* sorted(items) by name: what sort_keys = True does to one dict
RECURSIVE SortItems(_)
Insert(it, sorted) ==
    LET pos == Cardinality({k \in 1..Len(sorted) : sorted[k][1] <= it[1]})
    IN  SubSeq(sorted, 1, pos) \o <<it>> \o SubSeq(sorted, pos + 1, Len(sorted))
SortItems(its) ==
    IF its = <<>> THEN <<>> ELSE Insert(Head(its), SortItems(Tail(its)))

\* parameter values that are sequences: the tuple (1, 2) and the list [1, 2]
ItemTuple == <<2, 9>>
ItemList  == <<2, 10>>

\* json.dumps of one parameter value: a tuple is written as the array that
\* the list with the same members is written as; any other value of the model
\* has a text of its own
JsonValue(v) == IF v = ItemTuple[2] THEN ItemList[2] ELSE v

\* json.dumps of each pair of the dict, in insertion order
JsonItems(its) == [i \in 1..Len(its) |-> <<its[i][1], JsonValue(its[i][2])>>]

\* faulty variant: the pairs are written in insertion order (no sort_keys)
ParamsStrUnsorted(ps) ==
    IF ps.none \/ ps.items = <<>> THEN <<>> ELSE JsonItems(ps.items)

\* params_str = json.dumps(params, sort_keys=True) if params else '{}'
ParamsStr(ps) ==
    IF ps.none \/ ps.items = <<>> THEN <<>> ELSE SortItems(JsonItems(ps.items))

\* _get_cache_key: md5 of "url:params_str"; the digest is represented by the
\* string digested (no two strings of the model share a digest)
CacheKey(u, ps) == <<u, ParamsStr(ps)>>

CacheKeys == {CacheKey(id.url, id.params) : id \in Identities}

\* a parameter whose value json cannot serialize (a datetime.date): value 0
ItemDate == <<3, 0>>

\* json.dumps(params, sort_keys=True) succeeds: every value is a JSON value
ParamsSerializable(ps) == \A i \in 1..Len(ps.items) : ps.items[i][2] > 0

\* _get_cache_key raises: params is truthy and json.dumps raises TypeError
GetCacheKeyRaises(ps) ==
    ~(ps.none \/ ps.items = <<>>) /\ ~ParamsSerializable(ps)

\* TypeError("Object of type date is not JSON serializable")
TypeErrorNotSerializable == [t |-> "TypeError", v |-> 0, n |-> 1]

\* get / set leave through the exception of _get_cache_key, which both call
\* after the "if not self.enabled" return and before their try block
KeyErrorEscapes(ps) == enabled /\ GetCacheKeyRaises(ps)

\* identities used by the calls of the cache and fetch specifications
CallIds == {Ident(1, PNone), Ident(1, PDict(<<>>)), Ident(2, PDict(<<ItemA>>))}

\* JSON text of a payload, as json.dump writes it
JNull == [j |-> "null", v |-> 0]
Serializable(p) == p.t \in {"dict", "tuple", "list", "none"}
JsonDumps(p) ==
    CASE p.t = "dict"             -> [j |-> "object", v |-> p.v]
      [] p.t \in {"tuple", "list"} -> [j |-> "array",  v |-> p.v]
      [] p.t = "none"             -> JNull

\* the value json.load builds from a JSON text
JsonLoads(x) ==
    CASE x.j = "object" -> PyDict(x.v)
      [] x.j = "array"  -> [t |-> "list", v |-> x.v, n |-> 0]
      [] x.j = "null"   -> None

\* datetime.isoformat() / datetime.fromisoformat()
IsoFormat(t)     == [iso |-> t]
FromIsoFormat(x) == x.iso

\* content of one cache file
NoFile      == [st |-> "absent",  created_at |-> IsoFormat(0), data |-> JNull]
PartialFile == [st |-> "partial", created_at |-> IsoFormat(0), data |-> JNull]
EntryFile(t, x) == [st |-> "entry", created_at |-> IsoFormat(t), data |-> x]

EmptyDir == [k \in CacheKeys |-> NoFile]

\* faulty variant: an entry expires as soon as its age reaches the TTL
ExpiredAtTTL(created, t) == t - created >= default_ttl

\* datetime.now() - created_at > self.default_ttl
Expired(created, t) == t - created > default_ttl

\* faulty variant: get returns the whole cache record, not its 'data' field
EntryRecord(f) == PyDict(0)

\* cache_data['data']
EntryData(f) == JsonLoads(f.data)

\* faulty variant: a hit rewrites the entry with the time of the read
CacheGetTouch(fs, u, ps, t) ==
    LET key == CacheKey(u, ps)
        f   == fs[key]
    IN  IF ~enabled \/ f.st # "entry" THEN [ret |-> None, files |-> fs]
        ELSE IF Expired(FromIsoFormat(f.created_at), t)
             THEN [ret |-> None, files |-> [fs EXCEPT ![key] = NoFile]]
        ELSE [ret |-> EntryData(f), files |-> [fs EXCEPT ![key] = EntryFile(t, f.data)]]

\* APICache.get(url, params) at clock t on directory fs:
\* the value returned and the directory afterwards
CacheGet(fs, u, ps, t) ==
    LET key == CacheKey(u, ps)
        f   == fs[key]
    IN  IF ~enabled THEN [ret |-> None, files |-> fs]
        ELSE IF f.st = "absent" THEN [ret |-> None, files |-> fs]
        ELSE IF f.st = "partial"                 \* json.load raises
             THEN [ret |-> None, files |-> fs]
        ELSE IF Expired(FromIsoFormat(f.created_at), t)
             THEN [ret |-> None, files |-> [fs EXCEPT ![key] = NoFile]]
        ELSE [ret |-> EntryData(f), files |-> fs]

\* APICache.set(url, params, data) at clock t on directory fs: open(.., 'w')
\* truncates the file, json.dump writes the record field by field and raises
\* at 'data' when data is not serializable, leaving a partial file
CacheSet(fs, u, ps, d, t) ==
    LET key == CacheKey(u, ps)
    IN  IF ~enabled THEN [ret |-> FALSE, files |-> fs]
        ELSE IF Serializable(d)
             THEN [ret |-> TRUE,
                   files |-> [fs EXCEPT ![key] = EntryFile(t, JsonDumps(d))]]
        ELSE [ret |-> FALSE, files |-> [fs EXCEPT ![key] = PartialFile]]

PyBool(b) == [t |-> "bool", v |-> IF b THEN 1 ELSE 0, n |-> 0]

(***************************************************************************)
(* Specification of the cache on its own: get and set calls, one at a time *)
(***************************************************************************)
TTLHours == {1, 24}             \* default_ttl_hours; 24 is the default
HoursToMs(h) == h * 3600000

InitCache ==
    /\ now = 0
    /\ max_requests = 1 /\ requests = <<>> /\ admitted = <<>> /\ sleep_time = 0
    /\ last_request_time = 0
    /\ max_retries = 3 /\ base_delay = 1000 /\ max_delay = 60000
    /\ has_cache = TRUE
    /\ enabled \in BOOLEAN
    /\ \E h \in TTLHours : default_ttl = HoursToMs(h)
    /\ files = EmptyDir
    /\ IdleCall
    /\ nticks = 0
    /\ EmptyLake
    /\ IdleApp

(***************************************************************************)
(* Specification of _get_cache_key as a function of (url, params)          *)
(***************************************************************************)
ItemA2 == <<1, 8>>          \* the name of ItemA with another value
ItemC  == <<3, 7>>          \* the value of ItemA under another name

\* the dicts a caller can build: distinct names, in every insertion order
KeyParams ==
    {PNone, PDict(<<>>),
     PDict(<<ItemA>>), PDict(<<ItemB>>), PDict(<<ItemA2>>), PDict(<<ItemC>>),
     PDict(<<ItemTuple>>), PDict(<<ItemList>>),
     PDict(<<ItemA, ItemB>>), PDict(<<ItemB, ItemA>>),
     PDict(<<ItemA2, ItemB>>), PDict(<<ItemB, ItemA2>>),
     PDict(<<ItemA, ItemTuple>>), PDict(<<ItemList, ItemA>>),
     PDict(<<ItemA, ItemB, ItemC>>), PDict(<<ItemC, ItemB, ItemA>>),
     PDict(<<ItemB, ItemC, ItemA>>)}

KeyUrls == {1, 2}

InitKey ==
    /\ InitCache
    /\ enabled = TRUE

\* cache_key = self._get_cache_key(url, params); the last two applications
\* are kept, the latest first
ApplyGetCacheKey ==
    /\ \E u \in KeyUrls, ps \in KeyParams :
          trace' = SubSeq(<<[url |-> u, params |-> ps, key |-> CacheKey(u, ps)]>>
                            \o trace, 1, Min(2, Len(trace) + 1))
    /\ UNCHANGED <<now, limiterVars, last_request_time, retryCfg, cacheCfg, lakeVars, appVars,
                   files, pc, call, attempt, last_exception, data, outcome,
                   sleeps, pre, prev, ncalls, nticks>>

NextKey == ApplyGetCacheKey

SpecKey == InitKey /\ [][NextKey]_vars

\* the name/value pairs of a params argument, as a set (None has none)
ItemSet(ps) == {ps.items[i] : i \in 1..Len(ps.items)}

\* the pairs with each value in its JSON text
JsonItemSet(ps) == {<<it[1], JsonValue(it[2])>> : it \in ItemSet(ps)}

\* C22 as stated: two identities have the same key exactly when they have
\* the same URL and the same set of parameter name/value pairs
C22_Original ==
    \A i, j \in 1..Len(trace) :
        (trace[i].key = trace[j].key)
            <=> (/\ trace[i].url = trace[j].url
                 /\ ItemSet(trace[i].params) = ItemSet(trace[j].params))

\* C22: the key depends only on the URL and on the set of parameter
\* name/value pairs as json.dumps writes them: insertion order does not
\* matter, None and {} give the same key, and identities that differ in URL
\* or in the JSON text of a name or value have different keys
C22_CacheKeyDeterminism ==
    \A i, j \in 1..Len(trace) :
        (trace[i].key = trace[j].key)
            <=> (/\ trace[i].url = trace[j].url
                 /\ JsonItemSet(trace[i].params) = JsonItemSet(trace[j].params))

\* C22 witness: the same three parameters inserted in two different orders
\* got one key
C22_Witness ==
    /\ Len(trace) = 2
    /\ Len(trace[1].params.items) = 3
    /\ trace[1].params # trace[2].params
    /\ trace[1].key = trace[2].key

\* the finished cache call: its arguments, the file of its key before it ran
CacheCall(o, id, d) ==
    [op |-> o, url |-> id.url, params |-> id.params, arg |-> d,
     before |-> IF GetCacheKeyRaises(id.params) THEN NoFile
                ELSE files[CacheKey(id.url, id.params)],
     at |-> now]

\* summary of the call before the last one
Shift ==
    prev' = IF call.op \in {"get", "set"}
            THEN [valid |-> TRUE, op |-> call.op, url |-> call.url,
                  params |-> call.params, arg |-> call.arg,
                  before |-> call.before, end |-> call.at]
            ELSE NoPrev

\* a caller runs cache.get(url, params), the identity drawn from Ids
DoCacheGet(Ids) ==
    /\ pc = "idle"
    /\ \E id \in Ids :
         /\ IF KeyErrorEscapes(id.params)
            THEN /\ outcome' = [kind |-> "raise",
                                x |-> TypeErrorNotSerializable]
                 /\ UNCHANGED files
            ELSE LET r == CacheGet(files, id.url, id.params, now)
                 IN  /\ files' = r.files
                     /\ outcome' = [kind |-> "return", x |-> r.ret]
         /\ call' = CacheCall("get", id, None)
    /\ Shift
    /\ UNCHANGED <<now, limiterVars, last_request_time, retryCfg, cacheCfg, lakeVars, appVars,
                   pc, attempt, last_exception, data, trace, sleeps, pre,
                   ncalls, nticks>>

CallCacheGet == DoCacheGet(CallIds)

\* a caller runs cache.set(url, params, data), the identity drawn from Ids,
\* the payload from P, at most N such calls in one behaviour
DoCacheSet(Ids, P, N) ==
    /\ pc = "idle"
    /\ ncalls < N
    /\ ncalls' = ncalls + 1
    /\ \E id \in Ids, d \in P :
         /\ IF KeyErrorEscapes(id.params)
            THEN /\ outcome' = [kind |-> "raise",
                                x |-> TypeErrorNotSerializable]
                 /\ UNCHANGED files
            ELSE LET r == CacheSet(files, id.url, id.params, d, now)
                 IN  /\ files' = r.files
                     /\ outcome' = [kind |-> "return", x |-> PyBool(r.ret)]
         /\ call' = CacheCall("set", id, d)
    /\ Shift
    /\ UNCHANGED <<now, limiterVars, last_request_time, retryCfg, cacheCfg, lakeVars, appVars,
                   pc, attempt, last_exception, data, trace, sleeps, pre,
                   nticks>>

CallCacheSet == DoCacheSet(CallIds, OpPayloads, MaxSets)

\* time passes between two cache calls
TickC ==
    /\ nticks < MaxCacheTicks
    /\ nticks' = nticks + 1
    /\ \E d \in {1, default_ttl - 1, default_ttl} : now' = now + d
    /\ UNCHANGED <<limiterVars, last_request_time, retryCfg, cacheCfg, lakeVars, appVars, files,
                   callVars>>

NextCache == CallCacheGet \/ CallCacheSet \/ TickC

SpecCache == InitCache /\ [][NextCache]_vars


\* the last two cache calls were set(id, v) and then, with no time in
\* between, get(id) on an enabled cache
SetThenGet ==
    /\ enabled
    /\ call.op = "get" /\ prev.valid /\ prev.op = "set"
    /\ CacheKey(prev.url, prev.params) = CacheKey(call.url, call.params)
    /\ prev.end = call.at

\* C9 as stated: set(url, params, v) followed immediately by get(url, params)
\* returns v, for every identity and payload
C9_Original == SetThenGet => outcome.x = prev.arg

\* C9 (amended): set(url, params, v) followed immediately by get(url, params)
\* returns v for every payload that JSON represents exactly (dict with string
\* keys, list, None), whatever the file held before; a tuple comes back as
\* the list of its items, and a payload json cannot serialize makes set
\* return False and the following get return absent
C9_SetGetRoundTrip ==
    SetThenGet =>
       /\ prev.arg.t \in {"dict", "list", "none"} => outcome.x = prev.arg
       /\ prev.arg.t = "tuple" => outcome.x = PyList
       /\ ~Serializable(prev.arg) => outcome.x = None

\* C9 witness: a second set on the identity replaced an older, different
\* payload and the get returned the new one
C9_Witness ==
    /\ SetThenGet
    /\ prev.before.st = "entry"
    /\ prev.before.data # JsonDumps(prev.arg)
    /\ prev.arg.t = "dict"
    /\ outcome.x = prev.arg

\* age of the entry that the last get found
AgeSeen == call.at - FromIsoFormat(call.before.created_at)

C10_Get ==
    (enabled /\ call.op = "get") =>
       LET key == CacheKey(call.url, call.params)
       IN  /\ (call.before.st = "entry" /\ AgeSeen > default_ttl)
                => (outcome.x = None /\ files[key] = NoFile)
           /\ (call.before.st = "entry" /\ AgeSeen <= default_ttl)
                => (outcome.x = JsonLoads(call.before.data)
                    /\ files[key] = call.before)
           /\ call.before.st = "absent"
                => (outcome.x = None /\ files[key] = NoFile)

C10_OnlySetCreates ==
    \A k \in CacheKeys :
        (files[k].st = "absent" /\ files'[k].st # "absent")
           => (call'.op = "set" /\ CacheKey(call'.url, call'.params) = k)

\* C10: a get that finds an entry older than the TTL returns absent and
\* removes the file, and the file then stays absent (every get returning
\* absent) until a set on that key; a get that finds an entry of age at most
\* the TTL returns its payload and leaves the file as it is
C10_TTLExpiry == [] C10_Get /\ [][C10_OnlySetCreates]_vars

\* C10 witness: a get found an entry older than the TTL and removed its file
C10_Witness ==
    /\ enabled /\ call.op = "get"
    /\ call.before.st = "entry" /\ AgeSeen > default_ttl
    /\ outcome.x = None
    /\ files[CacheKey(call.url, call.params)] = NoFile

\* what a get call may do to the file of key k
C35_GetStep(k) ==
    \/ files'[k] = files[k]
    \/ /\ k = CacheKey(call'.url, call'.params)
       /\ files[k].st = "entry" /\ files'[k] = NoFile
       /\ call'.at - FromIsoFormat(files[k].created_at) > default_ttl
       /\ outcome'.x = None

\* C35: a get changes neither created_at nor the payload of any entry and
\* creates no entry; the only change it can make is deleting the expired
\* entry of its own key, and a hit returns the payload and leaves the
\* directory as it was
C35_ReadsDoNotExtend ==
    [][call'.op = "get" =>
          /\ \A k \in CacheKeys : C35_GetStep(k)
          /\ outcome'.x # None => files' = files]_vars

\* C35 witness: an entry was read twice, at two later times, and still
\* carries the time of its set
C35_Witness ==
    /\ enabled /\ call.op = "get" /\ prev.valid /\ prev.op = "get"
    /\ CacheKey(prev.url, prev.params) = CacheKey(call.url, call.params)
    /\ outcome.x # None
    /\ files[CacheKey(call.url, call.params)] = call.before
    /\ FromIsoFormat(call.before.created_at) < prev.end
    /\ prev.end < call.at

\* the last two cache calls were a set that returned False on an identity
\* that held a valid entry, and a get on that identity while that entry was
\* still within its TTL
FailedSetThenGet ==
    /\ enabled
    /\ call.op = "get" /\ prev.valid /\ prev.op = "set"
    /\ CacheKey(prev.url, prev.params) = CacheKey(call.url, call.params)
    /\ ~Serializable(prev.arg)
    /\ prev.before.st = "entry"
    /\ call.at - FromIsoFormat(prev.before.created_at) <= default_ttl

\* C34: when set(url, params, v2) fails while a valid non-expired entry v1
\* exists for the identity, a following get(url, params) still returns v1
C34_FailedSetKeepsEntry ==
    FailedSetThenGet => outcome.x = JsonLoads(prev.before.data)


(***************************************************************************)
(* BaseSource._fetch_with_protection and CombinedRateLimiter.execute       *)
(***************************************************************************)

\* faulty variant: the cache is never consulted as a hit
IsHitNever(cached) == FALSE

\* if cached is not None
IsHit(cached) == cached # None

\* faulty variant: the cache is consulted whatever use_cache says
ConsultCacheAlways(uc) == has_cache

\* "if use_cache and self.cache" before the fetch
ConsultCache(uc) == uc /\ has_cache

\* faulty variant: the result is never stored
StoreResultNever(uc) == FALSE

\* "if use_cache and self.cache" after the fetch
StoreResult(uc) == uc /\ has_cache

\* faulty variant: the retrier is called directly, without CombinedRateLimiter.execute
AfterMissRetryOnly == "retry"

\* data = self.rate_limiter.execute(wrapped_fetch): execute starts with
\* rate_limiter.wait_if_needed()
AfterMiss == "admit"

FetchIds == {Ident(1, PNone), Ident(2, PDict(<<ItemA>>))}
FetchPayloads == {PyDict(1), PyDict(2), None, PyTuple, PyBytes}
FetchErrorKinds == {1}
FetchJitters == {1000}
FetchDelays == {MIN_DELAY_MS, MAX_DELAY_MS}
FetchLateness == {0}

\* a connector calls _fetch_with_protection(url, fetch_func, params, use_cache),
\* the identity drawn from Ids, at most N such calls in one behaviour
StartFetch(Ids, N) ==
    /\ pc = "idle"
    /\ ncalls < N
    /\ ncalls' = ncalls + 1
    /\ \E id \in Ids, uc \in BOOLEAN :
          call' = [op |-> "fetch", url |-> id.url, params |-> id.params,
                   use_cache |-> uc]
    /\ pre' = [now |-> now, requests |-> requests, files |-> files,
               nadmitted |-> Len(admitted)]
    /\ trace' = <<>> /\ sleeps' = <<>>
    /\ outcome' = NoOutcome /\ data' = None
    /\ attempt' = 0 /\ last_exception' = None
    /\ pc' = "lookup"
    /\ UNCHANGED <<now, limiterVars, last_request_time, retryCfg, cacheCfg, lakeVars, appVars,
                   files, prev, nticks>>

CallFetch == StartFetch(FetchIds, MaxCalls)

\* 1. Tentar cache primeiro
FetchLookup ==
    /\ pc = "lookup"
    /\ IF ConsultCache(call.use_cache) /\ KeyErrorEscapes(call.params)
       THEN /\ outcome' = [kind |-> "raise", x |-> TypeErrorNotSerializable]
            /\ pc' = "done"
            /\ UNCHANGED <<files, trace>>
       ELSE IF ConsultCache(call.use_cache)
       THEN LET r == CacheGet(files, call.url, call.params, now)
            IN  /\ files' = r.files
                /\ trace' = Append(trace, Ev("lookup", r.ret))
                /\ IF IsHit(r.ret)
                   THEN /\ outcome' = [kind |-> "return", x |-> r.ret]
                        /\ pc' = "done"
                   ELSE /\ pc' = AfterMiss
                        /\ UNCHANGED outcome
       ELSE /\ pc' = AfterMiss
            /\ UNCHANGED <<files, trace, outcome>>
    /\ UNCHANGED <<now, limiterVars, last_request_time, retryCfg, cacheCfg, lakeVars, appVars,
                   call, attempt, last_exception, data, sleeps, pre, prev,
                   ncalls, nticks>>

\* CombinedRateLimiter.execute, 1: self.rate_limiter.wait_if_needed()
FetchAdmit ==
    /\ pc = "admit"
    /\ \E late \in FetchLateness : wait_if_needed(late)
    /\ trace' = Append(trace, Ev("admit", None))
    /\ pc' = "delay"
    /\ UNCHANGED <<last_request_time, retryCfg, cacheCfg, lakeVars, appVars, files, call, attempt,
                   last_exception, data, outcome, sleeps, pre, prev, ncalls,
                   nticks>>

\* faulty variant: the requester also waits out the time since its last request
delayer_sleep_more(d) ==
    /\ now' = now + d + last_request_time
    /\ last_request_time' = now + d + last_request_time

\* DelayedRequester.sleep(), the delay drawn being d
delayer_sleep(d) ==
    /\ now' = now + d
    /\ last_request_time' = now + d

\* CombinedRateLimiter.execute, 2: self.delayer.sleep(); then 3: the retrier
FetchDelay ==
    /\ pc = "delay"
    /\ \E d \in FetchDelays : delayer_sleep(d)
    /\ trace' = Append(trace, Ev("sleep", None))
    /\ pc' = "retry"
    /\ UNCHANGED <<limiterVars, retryCfg, cacheCfg, lakeVars, appVars, files, call, attempt,
                   last_exception, data, outcome, sleeps, pre, prev, ncalls,
                   nticks>>

\* the retrier's loop inside a fetch
FetchAttempt ==
    /\ call.op = "fetch"
    /\ Attempt(FetchPayloads, FetchErrorKinds, FetchJitters)

\* 3. Cachear resultado; return data
FetchCacheSet ==
    /\ pc = "cache_set"
    /\ IF StoreResult(call.use_cache) /\ KeyErrorEscapes(call.params)
       THEN /\ outcome' = [kind |-> "raise", x |-> TypeErrorNotSerializable]
            /\ UNCHANGED <<files, trace>>
       ELSE /\ IF StoreResult(call.use_cache)
               THEN /\ files' = CacheSet(files, call.url, call.params, data,
                                         now).files
                    /\ trace' = Append(trace, Ev("set", data))
               ELSE UNCHANGED <<files, trace>>
            /\ outcome' = [kind |-> "return", x |-> data]
    /\ pc' = "done"
    /\ UNCHANGED <<now, limiterVars, last_request_time, retryCfg, cacheCfg, lakeVars, appVars,
                   call, attempt, last_exception, data, sleeps, pre, prev,
                   ncalls, nticks>>

\* time passes between two fetches
TickF ==
    /\ pc = "idle"
    /\ nticks < MaxFetchTicks
    /\ nticks' = nticks + 1
    /\ \E d \in {default_ttl, default_ttl + 1} : now' = now + d
    /\ UNCHANGED <<limiterVars, last_request_time, retryCfg, cacheCfg, lakeVars, appVars, files,
                   callVars>>

InitFetch ==
    /\ now = 0
    /\ max_requests \in {1, 2}
    /\ requests = <<>> /\ admitted = <<>> /\ sleep_time = 0
    /\ last_request_time = 0
    /\ max_retries \in {0, 2}
    /\ base_delay = 1000 /\ max_delay = 60000
    /\ has_cache \in BOOLEAN
    /\ enabled \in BOOLEAN
    /\ has_cache \/ ~enabled
    /\ default_ttl = HoursToMs(24)
    /\ files = EmptyDir
    /\ IdleCall
    /\ nticks = 0
    /\ EmptyLake
    /\ IdleApp

Next ==
    \/ CallFetch \/ FetchLookup \/ FetchAdmit \/ FetchDelay \/ RetryEnter
    \/ FetchAttempt \/ FetchCacheSet \/ Finish \/ TickF

Spec == InitFetch /\ [][Next]_vars


(***************************************************************************)
(* Properties of the fetch pipeline                                        *)
(***************************************************************************)
FetchDone == pc = "done" /\ call.op = "fetch"
FetchKey  == CacheKey(call.url, call.params)

\* the file of the fetch's identity when the fetch started
FileAtStart == pre.files[FetchKey]

\* that file was an entry no older than the TTL when the fetch started
FreshAtStart ==
    /\ FileAtStart.st = "entry"
    /\ pre.now - FromIsoFormat(FileAtStart.created_at) <= default_ttl

\* that file was an entry older than the TTL when the fetch started
StaleAtStart ==
    /\ FileAtStart.st = "entry"
    /\ pre.now - FromIsoFormat(FileAtStart.created_at) > default_ttl

\* the fetch touched neither the limiter nor the delayer nor the operation,
\* and no time was slept
Bypassed ==
    /\ Count("admit") = 0 /\ Count("sleep") = 0 /\ Count("op") = 0
    /\ requests = pre.requests
    /\ Len(admitted) = pre.nadmitted
    /\ now = pre.now

\* C2 as stated: a fetch with use_cache = true that finds a non-expired entry
\* for its identity returns the cached payload without admission, delay or
\* invocation of the operation
C2_Original ==
    (FetchDone /\ call.use_cache /\ has_cache /\ enabled /\ FreshAtStart)
    => /\ outcome = [kind |-> "return", x |-> JsonLoads(FileAtStart.data)]
       /\ Bypassed

\* C2 (amended): a fetch with use_cache = true that finds a non-expired entry
\* whose stored payload is not null (None) returns the cached payload; the
\* limiter records no admission, the delayer does not sleep and the operation
\* is not invoked.  An entry holding null is read as absent and the fetch
\* runs as a miss.
C2_CacheHitBypass ==
    (FetchDone /\ call.use_cache /\ has_cache /\ enabled /\ FreshAtStart)
    => IF FileAtStart.data # JNull
       THEN /\ outcome = [kind |-> "return", x |-> JsonLoads(FileAtStart.data)]
            /\ Bypassed
            /\ trace = <<Ev("lookup", outcome.x)>>
       ELSE Count("admit") = 1 /\ Count("sleep") = 1

\* C2 witness: a hit served while the limiter's window was full
C2_Witness ==
    /\ FetchDone /\ call.use_cache /\ has_cache /\ FreshAtStart
    /\ FileAtStart.data # JNull
    /\ outcome.kind = "return"
    /\ Len(requests) = max_requests
    /\ Bypassed

\* position of the first step after the cache lookup, if there is one
Base == IF ConsultCache(call.use_cache) THEN 1 ELSE 0

\* C3: in every fetch the steps taken so far are, in this order: the cache
\* lookup (when the cache is consulted), one admission, one delay, the
\* operation's invocations with a backoff between two of them, the cache
\* write (when the result is stored); a fetch that returns without having
\* been served from the cache has gone through all of them
C3_MissSequencing ==
    call.op = "fetch" =>
       /\ \A i \in 1..Len(trace) :
             /\ trace[i].ev = "lookup" <=> (i = 1 /\ Base = 1)
             /\ trace[i].ev = "admit"  <=> i = Base + 1
             /\ trace[i].ev = "sleep"  <=> i = Base + 2
             /\ trace[i].ev = "op" =>
                   /\ i >= Base + 3
                   /\ i > Base + 3 => trace[i - 1].ev = "backoff"
             /\ trace[i].ev = "backoff" => (i > Base + 3 /\ trace[i - 1].ev = "op")
             /\ trace[i].ev = "set" =>
                   /\ i > Base + 3 /\ i = Len(trace)
                   /\ trace[i - 1] = Ev("op", trace[i].x)
       /\ (pc = "done" /\ outcome.kind = "return" /\ Count("admit") > 0) =>
             /\ Count("op") >= 1
             /\ outcome.x = Nth("op", Count("op")).x
             /\ Count("set") = (IF StoreResult(call.use_cache) THEN 1 ELSE 0)
       /\ (pc = "done" /\ Count("admit") = 0) =>
             /\ trace = <<Ev("lookup", outcome.x)>>
             /\ outcome.kind = "return"

\* C3 witness: a miss that was looked up, admitted, delayed, retried once
\* and stored
C3_Witness ==
    /\ FetchDone /\ outcome.kind = "return"
    /\ Len(trace) = 7
    /\ trace[1].ev = "lookup" /\ trace[2].ev = "admit" /\ trace[3].ev = "sleep"
    /\ trace[4].ev = "op" /\ trace[5].ev = "backoff" /\ trace[6].ev = "op"
    /\ trace[7].ev = "set"

\* the fetch ended by the retrier running out of attempts
Exhausted ==
    /\ FetchDone /\ outcome.kind = "raise" /\ max_retries >= 1

\* C4 as stated: when the retrier exhausts its attempts the fetch raises the
\* operation's own error and the cache is exactly as it was before the call
C4_Original ==
    Exhausted =>
       /\ outcome.x = Nth("op", Count("op")).x
       /\ files = pre.files

\* C4 (amended): when the retrier exhausts its attempts (max_retries >= 1)
\* the fetch raises the error of the operation's last invocation, and no
\* cache entry is created or rewritten; the only change the call can have
\* made to the cache is that its initial lookup removed the file of its own
\* identity because that entry was older than the TTL
C4_FailedFetchCachesNothing ==
    Exhausted =>
       /\ outcome.x = Nth("op", Count("op")).x
       /\ outcome.x.t = "exc"
       /\ Count("op") = max_retries
       /\ Count("set") = 0
       /\ \A k \in CacheKeys :
             \/ files[k] = pre.files[k]
             \/ /\ k = FetchKey /\ ConsultCache(call.use_cache)
                /\ StaleAtStart
                /\ files[k] = NoFile

\* C4 witness: a failed fetch while another identity's entry is in the cache
C4_Witness ==
    /\ Exhausted /\ call.use_cache /\ has_cache
    /\ files = pre.files
    /\ \E k \in CacheKeys : k # FetchKey /\ files[k].st = "entry"

\* the fetch that just ended follows a successful, cache-missing fetch of the
\* same identity (both with use_cache, a cache being configured), and started
\* within the TTL of what that one stored
FollowsStoredMiss ==
    /\ FetchDone /\ call.use_cache /\ has_cache
    /\ prev.valid /\ prev.use_cache /\ prev.kind = "return" /\ prev.miss
    /\ prev.url = call.url /\ prev.params = call.params
    /\ pre.now - prev.end <= default_ttl

\* the fetch that just ended missed the cache and returned
StoredMiss ==
    /\ FetchDone /\ call.use_cache /\ has_cache
    /\ outcome.kind = "return" /\ Count("admit") > 0

\* C5 as stated: after a successful miss (the cache being enabled) the cache
\* holds the returned payload and the next fetch of the identity within the
\* TTL returns it without invoking the operation, for every payload
C5_Original ==
    /\ (StoredMiss /\ enabled) =>
          /\ files[FetchKey].st = "entry"
          /\ JsonLoads(files[FetchKey].data) = outcome.x
    /\ (FollowsStoredMiss /\ enabled) =>
          /\ outcome = [kind |-> "return", x |-> prev.x]
          /\ Count("op") = 0

\* payloads that JSON represents exactly and that are not None
Cacheable(p) == p.t \in {"dict", "list"}

\* C5 (amended): with an enabled cache, after a successful miss whose payload
\* is JSON-exact and not None, the cache holds that payload under the
\* identity, stamped with the time of return, and the next fetch of the
\* identity within the TTL returns the same payload without invoking the
\* operation
C5_SuccessCachedBeforeReturn ==
    /\ (StoredMiss /\ enabled /\ Cacheable(outcome.x)) =>
          files[FetchKey] = EntryFile(now, JsonDumps(outcome.x))
    /\ (FollowsStoredMiss /\ enabled /\ Cacheable(prev.x)) =>
          /\ outcome = [kind |-> "return", x |-> prev.x]
          /\ Count("op") = 0

\* C5 witness: the second of two fetches was served what the first stored
C5_Witness ==
    /\ FollowsStoredMiss /\ enabled /\ Cacheable(prev.x)
    /\ outcome = [kind |-> "return", x |-> prev.x]
    /\ Count("op") = 0

\* the fetch in progress was answered by its cache lookup
ServedFromCache == Count("lookup") = 1 /\ IsHit(Nth("lookup", 1).x)

\* the admissions the limiter recorded since the fetch started
AdmittedInFetch == Len(admitted) - pre.nadmitted

\* C28: a fetch that is not served from the cache is admitted by the limiter
\* exactly once and paced by the delayer exactly once, both before the first
\* invocation of the operation, however many invocations follow and whether
\* or not the limiter slept; a fetch served from the cache is not admitted;
\* so the window gains one timestamp per such fetch, none per retry.
C28_OneAdmissionPerMiss ==
    call.op = "fetch" =>
        /\ AdmittedInFetch = Count("admit") /\ Count("admit") <= 1
        /\ Count("sleep") <= 1
        /\ \A i \in 1..Len(trace) :
              trace[i].ev \in {"admit", "sleep"}
                  => \A j \in 1..i : trace[j].ev # "op"
        /\ Count("op") >= 1 => Count("admit") = 1 /\ Count("sleep") = 1
        /\ FetchDone =>
              IF ServedFromCache
              THEN Count("admit") = 0 /\ Count("sleep") = 0 /\ Count("op") = 0
              ELSE Count("admit") = 1 /\ Count("sleep") = 1

\* C28 witness: the limiter made the fetch wait, the operation was invoked
\* twice, and the fetch was admitted once
C28_Witness ==
    /\ FetchDone /\ ~ServedFromCache
    /\ sleep_time > 0
    /\ Count("op") = 2 /\ Count("backoff") = 1
    /\ Count("admit") = 1 /\ AdmittedInFetch = 1
    /\ Len(admitted) = 2

\* the fetch in progress was called with use_cache = False, or its source
\* has no cache
CacheBypassed == call.op = "fetch" /\ ~(call.use_cache /\ has_cache)

\* C31: a fetch called with use_cache = False, or by a source without a
\* cache, neither reads nor writes the cache: at every step the cache
\* directory is as it was when the fetch started, and when the fetch ends,
\* by a return or by an error, it has gone through the admission, the delay
\* and the retrier, even when a valid entry exists for its identity.
C31_NoCacheFrame ==
    CacheBypassed =>
        /\ files = pre.files
        /\ Count("lookup") = 0 /\ Count("set") = 0
        /\ FetchDone =>
              /\ Count("admit") = 1 /\ Count("sleep") = 1
              /\ max_retries >= 1 => Count("op") >= 1
              /\ outcome.kind = "return" => outcome.x = data

\* C31 witness: a valid entry existed for the identity, the fetch was called
\* with use_cache = False, ran the operation and returned another payload
C31_Witness ==
    /\ FetchDone /\ has_cache /\ enabled /\ ~call.use_cache
    /\ FreshAtStart
    /\ outcome.kind = "return" /\ Count("op") = 2
    /\ outcome.x # JsonLoads(FileAtStart.data)
    /\ files = pre.files

(***************************************************************************)
(* Specification of cache failures: direct get / set calls and fetches     *)
(* whose params may hold a value that json cannot serialize                *)
(***************************************************************************)
ErrIds == {Ident(1, PNone), Ident(2, PDict(<<ItemA>>)),
           Ident(2, PDict(<<ItemDate>>))}
ErrPayloads == {PyDict(1), PyBytes}

InitCacheErr ==
    /\ now = 0
    /\ max_requests = 1 /\ requests = <<>> /\ admitted = <<>> /\ sleep_time = 0
    /\ last_request_time = 0
    /\ max_retries = 1 /\ base_delay = 1000 /\ max_delay = 60000
    /\ has_cache = TRUE
    /\ enabled \in BOOLEAN
    /\ default_ttl = HoursToMs(24)
    /\ files = EmptyDir
    /\ IdleCall
    /\ nticks = 0
    /\ EmptyLake
    /\ IdleApp

CallCacheGetE == DoCacheGet(ErrIds)
CallCacheSetE == DoCacheSet(ErrIds, ErrPayloads, MaxErrCalls)
CallFetchE    == StartFetch(ErrIds, MaxErrCalls)

NextCacheErr ==
    \/ CallCacheGetE \/ CallCacheSetE \/ CallFetchE \/ FetchLookup
    \/ FetchAdmit \/ FetchDelay \/ RetryEnter \/ FetchAttempt
    \/ FetchCacheSet \/ Finish

SpecCacheErr == InitCacheErr /\ [][NextCacheErr]_vars

\* C11: APICache.get and APICache.set never propagate an error to their
\* caller (get answers absent, set answers False), and a fetch through
\* _fetch_with_protection ends with an error only if the operation itself
\* was run and failed, never because of the cache
C11_CacheErrorsAbsorbed ==
    /\ call.op \in {"get", "set"} => outcome.kind = "return"
    /\ (call.op = "set" /\ ~Serializable(call.arg))
          => outcome.x = PyBool(FALSE)
    /\ (call.op = "fetch" /\ pc = "done" /\ outcome.kind = "raise")
          => Count("op") > 0


(***************************************************************************)
(* storage/lake.py  DataLake                                               *)
(*                                                                         *)
(* A path is the sequence of its segments below one of the three roots.    *)
(* A segment is the text pre ++ num ++ ext: pre a literal prefix, num the  *)
(* decimal digits that a number was formatted to, ext a literal suffix.    *)
(***************************************************************************)
Seg(p, n, e) == [pre |-> p, num |-> n, ext |-> e]
Name(str)    == Seg(str, <<>>, "")

\* str(n) of a natural number: its decimal digits, unpadded
RECURSIVE Digits(_)
Digits(n) == IF n < 10 THEN <<n>> ELSE Append(Digits(n \div 10), n % 10)

\* %m, %d: two digits, zero padded
Pad2(n) == <<n \div 10, n % 10>>

\* faulty variant: the month segment is zero padded
StrPadded(n) == Pad2(n)

\* str(period_date.year), str(period_date.month)
Str(n) == Digits(n)

Date(y, m, d) == [year |-> y, month |-> m, day |-> d]

\* period_date.strftime("%Y%m%d")
StrftimeYmd(d) == Digits(d.year) \o Pad2(d.month) \o Pad2(d.day)

\* datetime.now().strftime('%Y%m%d_%H%M%S'): the wall clock cut to whole
\* seconds (the text is represented by the number of the second)
StrftimeSeconds(t) == Digits(t \div 1000)

\* mkdir(parents=True, exist_ok=True)
MkdirParents(dirs, path) == dirs \cup {SubSeq(path, 1, k) : k \in 1..Len(path)}

\* write_bytes / write_text / to_parquet on an existing directory: the file
\* at the path is created or replaced
WriteFile(fs, path, content) == (path :> content) @@ fs

Exists(tree, path) == path \in DOMAIN tree.files

\* hashlib.sha256 of the file's bytes (the digest is represented by the
\* bytes digested) and stat().st_size (likewise)
Sha256(b) == [sha256_of |-> b]
StSize(b) == [size_of |-> b]

(***************************************************************************)
(* DataFrames and Parquet files                                            *)
(***************************************************************************)
\* a DataFrame: number of rows, column names, kind of index, cell contents
\* (v), and whether pyarrow can convert every column (a column of mixed
\* str / int objects cannot be converted)
DataFrame(r, c, ix, v, a) ==
    [rows |-> r, cols |-> c, index |-> ix, v |-> v, arrow |-> a]

\* pd.DataFrame()
EmptyFrame == DataFrame(0, {}, "range", 0, TRUE)

\* tests/conftest.py sample_dataframe
sample_dataframe == DataFrame(5, {"date", "value", "ticker"}, "range", 1, TRUE)

\* faulty variant: index=True, a named index is written as one more column
ToParquetIndexed(df) ==
    [t |-> "parquet", rows |-> df.rows,
     cols |-> IF df.index = "named" THEN df.cols \cup {"__index_level_0__"}
              ELSE df.cols,
     v |-> df.v]

\* df.to_parquet(path, engine="pyarrow", compression=..., index=False): the
\* columns are written, the index is not
ToParquet(df) == [t |-> "parquet", rows |-> df.rows, cols |-> df.cols,
                  v |-> df.v]

\* pd.read_parquet(path): the columns, under a fresh RangeIndex
ReadParquet(b) == DataFrame(b.rows, b.cols, "range", b.v, TRUE)

(***************************************************************************)
(* DataLake.save_manifest                                                  *)
(***************************************************************************)
\* one entry of `files`: the dict that get_file_metadata builds (t = "dict")
\* or a FileMetadata dataclass instance (t = "FileMetadata"), which json
\* cannot serialize
FileRecord(ty, name, b, r, c, created) ==
    [t |-> ty, name |-> name, sha256 |-> Sha256(b), rows |-> r, columns |-> c,
     size_bytes |-> StSize(b), created_at |-> IsoFormat(created)]

\* json.dumps(manifest_data, indent=2) succeeds
ManifestSerializable(fl) == \A i \in 1..Len(fl) : fl[i].t = "dict"

\* faulty variant: file_count counts the distinct records
FileCountDistinct(fl) == Cardinality({fl[i] : i \in 1..Len(fl)})

\* "file_count": len(files)
FileCount(fl) == Len(fl)

\* the JSON document written and the dict that json.loads reads from it
ManifestDumps(m) == [json |-> "object", members |-> m]
ManifestLoads(x) == x.members

\* the timestamp in the manifest's file name
ManifestStamp(t) == StrftimeSeconds(t)

ManifestPath(source, domain, dataset, t) ==
    <<Name(domain), Name(dataset), Seg(source, ManifestStamp(t), ".json")>>

\* save_manifest(source, dataset, domain, ..., files, ..., ingestion_status)
\* at clock t on the manifest tree: raised or not, the path returned, the
\* tree afterwards
SaveManifest(tree, source, dataset, domain, fl, status, t) ==
    LET manifest_data ==
            [source |-> source, dataset |-> dataset, domain |-> domain,
             period_start |-> "2024-01-01", period_end |-> "2024-01-31",
             file_count |-> FileCount(fl), files |-> fl,
             source_url |-> "https://example.com",
             schema_version |-> "1.0",
             ingestion_timestamp |-> IsoFormat(t),
             ingestion_status |-> status]
        dir  == <<Name(domain), Name(dataset)>>
        manifest_file == ManifestPath(source, domain, dataset, t)
        made == MkdirParents(tree.dirs, dir)
    IN  IF ManifestSerializable(fl)
        THEN [raise |-> FALSE, path |-> manifest_file,
              tree |-> [dirs |-> made,
                        files |-> WriteFile(tree.files, manifest_file,
                                            ManifestDumps(manifest_data))]]
        ELSE [raise |-> TRUE, path |-> manifest_file,
              tree |-> [dirs |-> made, files |-> tree.files]]


(***************************************************************************)
(* Specification of the manifests: save_manifest calls, one at a time      *)
(***************************************************************************)
\* the state of every lake specification after DataLake(base_dir)
InitLake ==
    /\ now = 0
    /\ max_requests = 1 /\ requests = <<>> /\ admitted = <<>> /\ sleep_time = 0
    /\ last_request_time = 0
    /\ max_retries = 3 /\ base_delay = 1000 /\ max_delay = 60000
    /\ has_cache = FALSE /\ enabled = FALSE /\ default_ttl = HoursToMs(24)
    /\ files = EmptyDir
    /\ IdleCall
    /\ nticks = 0
    /\ EmptyLake
    /\ IdleApp

\* everything that no lake operation touches
nonLakeVars == <<max_requests, requests, admitted, sleep_time,
                 last_request_time, max_retries, base_delay, max_delay,
                 has_cache, enabled, default_ttl, files, attempt,
                 last_exception, data, trace, sleeps, appVars>>

DatasetIds == {[domain |-> "market_data",  dataset |-> "dataset1"],
               [domain |-> "fundamentals", dataset |-> "dataset2"]}

\* a second table: two rows under a named index
small_dataframe == DataFrame(2, {"date", "value"}, "named", 2, TRUE)

\* records as get_file_metadata builds them, and one FileMetadata instance
M1 == FileRecord("dict", Seg("data", StrftimeYmd(Date(2024, 1, 15)), ".parquet"),
                 ToParquet(sample_dataframe), 5, 3, 0)
M2 == FileRecord("dict", Seg("data", StrftimeYmd(Date(2024, 1, 16)), ".parquet"),
                 ToParquet(small_dataframe), 2, 2, 0)
MData == FileRecord("FileMetadata", M1.name, ToParquet(sample_dataframe), 5, 3, 0)

FilesLists == {<<>>, <<M1>>, <<M1, M2>>, <<M2, M1>>, <<M1, M1>>, <<MData>>}

\* the record of a finished lake call: arguments, the tree it worked on as
\* it was before the call, and the clock
LakeCall(o, args, tree) == [op |-> o, a |-> args, before |-> tree, at |-> now]

LakeOutcome(r) ==
    [kind |-> IF r.raise THEN "raise" ELSE "return", x |-> r.path]

\* a caller runs save_manifest(source, dataset, domain, ..., files, ...)
CallSaveManifest ==
    /\ pc = "idle"
    /\ ncalls < MaxManifests
    /\ ncalls' = ncalls + 1
    /\ \E id \in DatasetIds, fl \in FilesLists :
         LET r == SaveManifest(manifest_dir, "test_source", id.dataset,
                               id.domain, fl, "success", now)
         IN  /\ manifest_dir' = r.tree
             /\ outcome' = LakeOutcome(r)
             /\ call' = LakeCall("save_manifest",
                                 [source |-> "test_source",
                                  domain |-> id.domain,
                                  dataset |-> id.dataset, files |-> fl],
                                 manifest_dir)
    /\ UNCHANGED <<now, nonLakeVars, pc, pre, prev, nticks, raw_dir,
                   curated_dir>>

\* time passes between two save_manifest calls: a millisecond or a second
TickM ==
    /\ nticks < MaxManifestTicks
    /\ nticks' = nticks + 1
    /\ \E d \in {1, 1000} : now' = now + d
    /\ UNCHANGED <<nonLakeVars, pc, call, outcome, pre, prev, ncalls, lakeVars>>

NextManifest == CallSaveManifest \/ TickM

SpecManifest == InitLake /\ [][NextManifest]_vars

\* the last call was a save_manifest that returned a path
ManifestSaved == call.op = "save_manifest" /\ outcome.kind = "return"

\* C12: every save_manifest call creates a new manifest file and leaves
\* every manifest written by an earlier call in place with its content,
\* however close together in time the calls are
C12_ManifestHistoryAdditive ==
    ManifestSaved =>
       /\ ~Exists(call.before, outcome.x)
       /\ Exists(manifest_dir, outcome.x)
       /\ \A p \in DOMAIN call.before.files :
             /\ Exists(manifest_dir, p)
             /\ manifest_dir.files[p] = call.before.files[p]

\* the manifest that the last save_manifest call persisted, read back
Persisted == ManifestLoads(manifest_dir.files[outcome.x])

Bytes(k) == [t |-> "bytes", v |-> k, n |-> 0]   \* a bytes object
PyStr    == [t |-> "str",   v |-> 1, n |-> 0]   \* a str: write_bytes rejects it

\* what an interrupted to_parquet leaves at the path: not a Parquet file
PartialParquet == [t |-> "partial", rows |-> 0, cols |-> {}, v |-> 0]

\* exceptions that leave the lake's methods
TypeErrorBytesLike == [t |-> "TypeError", v |-> 0, n |-> 2]   \* write_bytes(str)
ArrowTypeError     == [t |-> "ArrowTypeError", v |-> 0, n |-> 0]
OSErrorWrite       == [t |-> "OSError", v |-> 0, n |-> 0]
ReadError          == [t |-> "ArrowInvalid", v |-> 0, n |-> 0]

LakeDates == {Date(2024, 1, 15), Date(2024, 1, 16), Date(2024, 3, 5),
              Date(2023, 1, 15), Date(2024, 11, 5)}

\* raw/<source>/<year>/<month>
RawDir(source, d) ==
    <<Name(source), Seg("", Str(d.year), ""), Seg("", Str(d.month), "")>>

\* save_raw(source, filename, content, period_date) on the raw tree
SaveRaw(tree, source, filename, content, d) ==
    LET save_dir  == RawDir(source, d)
        save_path == Append(save_dir, filename)
        made      == MkdirParents(tree.dirs, save_dir)
    IN  IF content.t = "bytes"
        THEN [raise |-> FALSE, path |-> save_path, exc |-> None,
              tree |-> [dirs |-> made,
                        files |-> WriteFile(tree.files, save_path, content)]]
        ELSE [raise |-> TRUE, path |-> save_path, exc |-> TypeErrorBytesLike,
              tree |-> [dirs |-> made, files |-> tree.files]]

\* curated/<domain>/<dataset>/year=<year>/month=<month>
CuratedDir(domain, dataset, d) ==
    <<Name(domain), Name(dataset), Seg("year=", Str(d.year), ""),
      Seg("month=", Str(d.month), "")>>

\* save_dir / f"{filename}_{timestamp}.parquet"
CuratedPath(domain, dataset, d, filename) ==
    Append(CuratedDir(domain, dataset, d),
           Seg(filename, StrftimeYmd(d), ".parquet"))

\* faulty variant: the write appends the new rows to the file at the path
WriteParquetMerge(fs, path, df) ==
    IF path \in DOMAIN fs /\ fs[path].t = "parquet"
    THEN WriteFile(fs, path,
                   [t |-> "parquet", rows |-> fs[path].rows + df.rows,
                    cols |-> fs[path].cols \cup df.cols, v |-> df.v])
    ELSE WriteFile(fs, path, ToParquet(df))

\* df.to_parquet(save_path, ...): the file at the path becomes the table
WriteParquet(fs, path, df) == WriteFile(fs, path, ToParquet(df))

\* save_curated(domain, dataset, df, period_date, filename) on the curated
\* tree; fault: the write is interrupted by the operating system
SaveCurated(tree, domain, dataset, df, d, filename, fault) ==
    LET save_dir  == CuratedDir(domain, dataset, d)
        save_path == CuratedPath(domain, dataset, d, filename)
        made      == MkdirParents(tree.dirs, save_dir)
    IN  IF ~df.arrow                 \* Table.from_pandas raises, no file opened
        THEN [raise |-> TRUE, path |-> save_path, exc |-> ArrowTypeError,
              tree |-> [dirs |-> made, files |-> tree.files]]
        ELSE IF fault
        THEN [raise |-> TRUE, path |-> save_path, exc |-> OSErrorWrite,
              tree |-> [dirs |-> made,
                        files |-> WriteFile(tree.files, save_path,
                                            PartialParquet)]]
        ELSE [raise |-> FALSE, path |-> save_path, exc |-> None,
              tree |-> [dirs |-> made,
                        files |-> WriteParquet(tree.files, save_path, df)]]

Last(path) == path[Len(path)]

\* faulty variant: the digest of the first file of the tree
FileSha256First(tree, path) ==
    Sha256(tree.files[CHOOSE p \in DOMAIN tree.files : TRUE])

\* calculate_file_sha256(file_path)
FileSha256(tree, path) == Sha256(tree.files[path])

\* get_file_metadata(file_path) at clock t
GetFileMetadata(tree, path, t) ==
    IF ~Exists(tree, path) \/ (Last(path).ext = ".parquet"
                               /\ tree.files[path].t # "parquet")
    THEN [raise |-> TRUE, exc |-> ReadError, meta |-> M1]
    ELSE LET b == tree.files[path]
         IN  IF Last(path).ext = ".parquet"
             THEN LET df == ReadParquet(b)
                  IN  [raise |-> FALSE, exc |-> None,
                       meta |-> [t |-> "dict", name |-> Last(path),
                                 sha256 |-> FileSha256(tree, path),
                                 rows |-> df.rows,
                                 columns |-> Cardinality(df.cols),
                                 size_bytes |-> StSize(b),
                                 created_at |-> IsoFormat(t)]]
             ELSE [raise |-> FALSE, exc |-> None,
                   meta |-> [t |-> "dict", name |-> Last(path),
                             sha256 |-> FileSha256(tree, path),
                             rows |-> 0, columns |-> 0,
                             size_bytes |-> StSize(b),
                             created_at |-> IsoFormat(t)]]


\* faulty variant: the method swallows the error and returns the path
PropagatesNever(r) == FALSE

\* save_raw and save_curated have no try block: an error of write_bytes or
\* to_parquet leaves the method
Propagates(r) == r.raise

\* the outcome of save_raw / save_curated
SaveOutcome(r) ==
    IF Propagates(r) THEN [kind |-> "raise",  x |-> r.exc]
                     ELSE [kind |-> "return", x |-> r.path]

\* a table that pyarrow cannot convert: a column of mixed str / int objects
mixed_dataframe == DataFrame(3, {"date", "value"}, "range", 3, FALSE)

RawContents == {Bytes(1), Bytes(2), PyStr}

\* a caller runs save_raw(source, filename, content, period_date); at most
\* N calls in one behaviour
DoSaveRaw(N) ==
    /\ pc = "idle"
    /\ ncalls < N
    /\ ncalls' = ncalls + 1
    /\ \E content \in RawContents, d \in LakeDates :
         LET r == SaveRaw(raw_dir, "src", Seg("f", <<>>, ".txt"), content, d)
         IN  /\ raw_dir' = r.tree
             /\ outcome' = SaveOutcome(r)
             /\ call' = LakeCall("save_raw",
                                 [source |-> "src",
                                  filename |-> Seg("f", <<>>, ".txt"),
                                  content |-> content, date |-> d],
                                 raw_dir)
    /\ UNCHANGED <<now, nonLakeVars, pc, pre, prev, nticks, curated_dir,
                   manifest_dir>>

(***************************************************************************)
(* Specification of one ingestion run after another: save_curated, then    *)
(* get_file_metadata on the returned path, then save_manifest with that    *)
(* record; an error of a step ends the run                                 *)
(***************************************************************************)
IngestFrames == {sample_dataframe, small_dataframe, mixed_dataframe}
IngestDates  == {Date(2024, 1, 15), Date(2024, 3, 5)}

NoLocals == [file_path |-> <<>>, metadata |-> M1]

ingestFrame == <<max_requests, requests, admitted, sleep_time,
                 last_request_time, max_retries, base_delay, max_delay,
                 has_cache, enabled, default_ttl, files, attempt,
                 last_exception, sleeps, pre, prev, appVars>>

IngestStart ==
    /\ pc = "idle"
    /\ ncalls < MaxIngests
    /\ ncalls' = ncalls + 1
    /\ \E df \in IngestFrames, d \in IngestDates :
         call' = [op |-> "ingest",
                  a |-> [domain |-> "market_data", dataset |-> "dataset1",
                         df |-> df, date |-> d],
                  before |-> [curated |-> curated_dir,
                              manifests |-> manifest_dir],
                  at |-> now]
    /\ data' = NoLocals /\ trace' = <<>> /\ outcome' = NoOutcome
    /\ pc' = "save"
    /\ UNCHANGED <<now, ingestFrame, nticks, lakeVars>>

\* file_path = lake.save_curated(domain, dataset, df, period_date)
IngestSave ==
    /\ pc = "save"
    /\ \E fault \in BOOLEAN :
         LET r == SaveCurated(curated_dir, call.a.domain, call.a.dataset,
                              call.a.df, call.a.date, "data", fault)
         IN  /\ curated_dir' = r.tree
             /\ trace' = Append(trace, Ev("save_curated", PyBool(~r.raise)))
             /\ IF Propagates(r)
                THEN /\ outcome' = SaveOutcome(r)
                     /\ pc' = "done"
                     /\ UNCHANGED data
                ELSE /\ data' = [data EXCEPT !.file_path = r.path]
                     /\ pc' = "meta"
                     /\ UNCHANGED outcome
    /\ UNCHANGED <<now, ingestFrame, call, ncalls, nticks, raw_dir,
                   manifest_dir>>

\* metadata = lake.get_file_metadata(file_path)
IngestMeta ==
    /\ pc = "meta"
    /\ LET r == GetFileMetadata(curated_dir, data.file_path, now)
       IN  IF r.raise
           THEN /\ outcome' = [kind |-> "raise", x |-> r.exc]
                /\ pc' = "done"
                /\ UNCHANGED data
           ELSE /\ data' = [data EXCEPT !.metadata = r.meta]
                /\ pc' = "manifest"
                /\ UNCHANGED outcome
    /\ trace' = Append(trace, Ev("get_file_metadata", None))
    /\ UNCHANGED <<now, ingestFrame, call, ncalls, nticks, lakeVars>>

\* lake.save_manifest(source, dataset, domain, ..., files=[metadata], ...)
IngestManifest ==
    /\ pc = "manifest"
    /\ LET r == SaveManifest(manifest_dir, "test_source", call.a.dataset,
                             call.a.domain, <<data.metadata>>, "success", now)
       IN  /\ manifest_dir' = r.tree
           /\ outcome' = LakeOutcome(r)
    /\ trace' = Append(trace, Ev("save_manifest", None))
    /\ pc' = "done"
    /\ UNCHANGED <<now, ingestFrame, call, data, ncalls, nticks, raw_dir,
                   curated_dir>>

\* time passes, between runs or between the steps of a run
TickI ==
    /\ nticks < MaxIngestTicks
    /\ nticks' = nticks + 1
    /\ \E d \in {1, 1000} : now' = now + d
    /\ UNCHANGED <<nonLakeVars, pc, call, outcome, pre, prev, ncalls, lakeVars>>

CallSaveRawI == DoSaveRaw(MaxIngests)

NextIngest ==
    \/ IngestStart \/ IngestSave \/ IngestMeta \/ IngestManifest \/ Finish
    \/ CallSaveRawI \/ TickI

SpecIngest == InitLake /\ [][NextIngest]_vars

\* an ingestion run has ended with a manifest written
IngestDone == call.op = "ingest" /\ pc = "done" /\ outcome.kind = "return"

\* C14: after save_curated, get_file_metadata on the returned path and
\* save_manifest with that record, the sha256 and the size listed in the
\* manifest are those of the bytes stored at that path when the manifest is
\* written
C14_ManifestHashesMatchDisk ==
    IngestDone =>
       LET m   == ManifestLoads(manifest_dir.files[outcome.x])
           b   == curated_dir.files[data.file_path]
       IN  /\ m.file_count = 1
           /\ m.files[1].name = Last(data.file_path)
           /\ m.files[1].sha256 = Sha256(b)
           /\ m.files[1].size_bytes = StSize(b)

\* C14 witness: a run replaced the table of an earlier run at the same path
\* while another file existed, and its manifest lists the new file's digest
C14_Witness ==
    /\ IngestDone
    /\ Exists(call.before.curated, data.file_path)
    /\ call.before.curated.files[data.file_path] # ToParquet(call.a.df)
    /\ Cardinality(DOMAIN curated_dir.files) = 2
    /\ ManifestLoads(manifest_dir.files[outcome.x]).files[1].sha256
          = Sha256(ToParquet(call.a.df))

\* a failed save_raw or save_curated leaves through its error, and a run
\* whose write failed has written no manifest
C15_FailedWrite ==
    /\ (call.op = "save_raw" /\ call.a.content.t # "bytes")
          => outcome.kind = "raise"
    /\ (call.op = "ingest" /\ pc = "done" /\ Count("save_manifest") = 0)
          => (outcome.kind = "raise"
              /\ manifest_dir = call.before.manifests)
    /\ (call.op = "ingest" /\ Count("save_curated") > 0
          /\ Nth("save_curated", 1).x = PyBool(FALSE))
          => (pc = "done" /\ outcome.kind = "raise"
              /\ outcome.x \in {ArrowTypeError, OSErrorWrite})

\* the manifest tree changes only in the manifest step of a run, and then
\* the file at the run's path is the complete table of the run
C15_ManifestStep ==
    manifest_dir' # manifest_dir =>
       /\ call.op = "ingest" /\ pc = "manifest"
       /\ Exists(curated_dir, data.file_path)
       /\ curated_dir.files[data.file_path] = ToParquet(call.a.df)

\* C15: a failed write of save_raw or save_curated propagates to the
\* caller, no lake operation writes a manifest as a side effect of a failed
\* or partial write, and in the sequence save_curated -> get_file_metadata
\* -> save_manifest a manifest is written only after the write completed
C15_ManifestImpliesCompleteWrite ==
    [] C15_FailedWrite /\ [][C15_ManifestStep]_vars

\* C15 witness: a run's write was interrupted over the complete file of an
\* earlier run; the error reached the caller, the file is partial and the
\* manifests are those of before the run
C15_Witness ==
    /\ call.op = "ingest" /\ pc = "done"
    /\ outcome.kind = "raise" /\ outcome.x = OSErrorWrite
    /\ Exists(call.before.curated, CuratedPath("market_data", "dataset1",
                                               call.a.date, "data"))
    /\ curated_dir.files[CuratedPath("market_data", "dataset1",
                                     call.a.date, "data")] = PartialParquet
    /\ manifest_dir = call.before.manifests
    /\ DOMAIN manifest_dir.files # {}


(***************************************************************************)
(* DataLake.load_curated, list_datasets                                    *)
(***************************************************************************)
\* path p lies below directory d
IsUnder(p, d) == Len(p) > Len(d) /\ SubSeq(p, 1, Len(d)) = d

\* list(dataset_dir.rglob("*.parquet")): every file below the directory, at
\* any depth, whose name ends in .parquet
RglobParquet(tree, d) ==
    {p \in DOMAIN tree.files : IsUnder(p, d) /\ Last(p).ext = ".parquet"}

RECURSIVE SumRows(_, _)
SumRows(fs, P) ==
    IF P = {} THEN 0
    ELSE LET p == CHOOSE q \in P : TRUE
         IN  ReadParquet(fs[p]).rows + SumRows(fs, P \ {p})

\* faulty variant: only one of the files is read
ConcatFirst(fs, P) ==
    LET p == CHOOSE q \in P : TRUE
    IN  [df |-> DataFrame(ReadParquet(fs[p]).rows, ReadParquet(fs[p]).cols,
                          "range", 0, TRUE),
         parts |-> [q \in {p} |-> ReadParquet(fs[q])]]

\* pd.concat([pd.read_parquet(f) for f in parquet_files], ignore_index=True):
\* the rows of every file under one fresh index, the union of the columns;
\* parts keeps which table came from which file (the order of the files is
\* the directory's)
Concat(fs, P) ==
    [df |-> DataFrame(SumRows(fs, P),
                      UNION {ReadParquet(fs[p]).cols : p \in P},
                      "range", 0, TRUE),
     parts |-> [p \in P |-> ReadParquet(fs[p])]]

NoParts == [df |-> EmptyFrame, parts |-> <<>>]

\* load_curated(domain, dataset) on the curated tree
LoadCurated(tree, domain, dataset) ==
    LET dataset_dir   == <<Name(domain), Name(dataset)>>
        parquet_files == RglobParquet(tree, dataset_dir)
    IN  IF dataset_dir \notin tree.dirs
        THEN [raise |-> FALSE, ret |-> NoParts]
        ELSE IF parquet_files = {}
        THEN [raise |-> FALSE, ret |-> NoParts]
        ELSE IF \E p \in parquet_files : tree.files[p].t # "parquet"
        THEN [raise |-> TRUE, ret |-> NoParts]
        ELSE [raise |-> FALSE, ret |-> Concat(tree.files, parquet_files)]

\* the domain argument of list_datasets: None or a name
NoDomain    == [none |-> TRUE,  name |-> ""]
Domain(str) == [none |-> FALSE, name |-> str]

\* search_dir.glob("*/*" if domain else "*/*"): the pattern has two levels
\* whether or not a domain is given
GlobLevels(dom) == IF ~dom.none THEN 2 ELSE 2

\* search_dir.glob(pattern): the entries that many levels below search_dir
Glob(tree, search_dir, levels) ==
    {e \in tree.dirs \cup DOMAIN tree.files :
        Len(e) = Len(search_dir) + levels /\ IsUnder(e, search_dir)}

\* list_datasets(domain) on the curated tree: the entries appended, as a set
\* (their order is the directory's)
ListDatasets(tree, dom) ==
    LET search_dir == IF ~dom.none THEN <<Name(dom.name)>> ELSE <<>>
        found == {e \in Glob(tree, search_dir, GlobLevels(dom)) :
                     e \in tree.dirs /\ RglobParquet(tree, e) # {}}
    IN  {[domain  |-> e[Len(e) - 1],          \* dataset_dir.parent.name
          dataset |-> Last(e),                \* dataset_dir.name
          file_count |-> Cardinality(RglobParquet(tree, e)),
          path |-> e] : e \in found}

(***************************************************************************)
(* Specification of the curated tree: save_curated, load_curated and       *)
(* list_datasets calls, one at a time                                      *)
(***************************************************************************)
CuratedFrames == {sample_dataframe, small_dataframe, mixed_dataframe}
CuratedDates  == {Date(2024, 1, 15), Date(2024, 1, 16), Date(2023, 1, 15)}
BaseNames     == {"data", "prices"}
LoadIds       == DatasetIds \cup
                 {[domain |-> "market_data", dataset |-> "dataset9"]}
ListDomains   == {NoDomain, Domain("market_data"), Domain("fundamentals"),
                  Domain("macro")}

\* the last save_curated call, kept while reads follow it
LastSave ==
    prev' = IF call.op = "save_curated"
            THEN [valid |-> TRUE, a |-> call.a, before |-> call.before,
                  kind |-> outcome.kind]
            ELSE prev

\* a caller runs save_curated(domain, dataset, df, period_date, filename)
CallSaveCurated ==
    /\ pc = "idle"
    /\ ncalls < MaxCuratedSaves
    /\ ncalls' = ncalls + 1
    /\ \E id \in DatasetIds, df \in CuratedFrames, d \in CuratedDates,
          filename \in BaseNames :
         LET r == SaveCurated(curated_dir, id.domain, id.dataset, df, d,
                              filename, FALSE)
         IN  /\ curated_dir' = r.tree
             /\ outcome' = SaveOutcome(r)
             /\ call' = LakeCall("save_curated",
                                 [domain |-> id.domain, dataset |-> id.dataset,
                                  df |-> df, date |-> d, filename |-> filename],
                                 curated_dir)
    /\ LastSave
    /\ UNCHANGED <<now, nonLakeVars, pc, pre, nticks, raw_dir, manifest_dir>>

\* a caller runs load_curated(domain, dataset)
CallLoadCurated ==
    /\ pc = "idle"
    /\ \E id \in LoadIds :
         LET r == LoadCurated(curated_dir, id.domain, id.dataset)
         IN  /\ outcome' = [kind |-> IF r.raise THEN "raise" ELSE "return",
                            x |-> r.ret]
             /\ call' = LakeCall("load_curated",
                                 [domain |-> id.domain, dataset |-> id.dataset],
                                 curated_dir)
    /\ LastSave
    /\ UNCHANGED <<now, nonLakeVars, pc, pre, ncalls, nticks, lakeVars>>

\* a caller runs list_datasets(domain)
CallListDatasets ==
    /\ pc = "idle"
    /\ \E dom \in ListDomains :
         /\ outcome' = [kind |-> "return",
                        x |-> ListDatasets(curated_dir, dom)]
         /\ call' = LakeCall("list_datasets", [domain |-> dom], curated_dir)
    /\ LastSave
    /\ UNCHANGED <<now, nonLakeVars, pc, pre, ncalls, nticks, lakeVars>>

NextCurated == CallSaveCurated \/ CallLoadCurated \/ CallListDatasets

SpecCurated == InitLake /\ [][NextCurated]_vars


\* the last call was a load_curated of the dataset that the last
\* save_curated call wrote to
SavedThenLoaded ==
    /\ call.op = "load_curated"
    /\ prev.valid /\ prev.kind = "return"
    /\ prev.a.domain = call.a.domain /\ prev.a.dataset = call.a.dataset

DatasetDir(a) == <<Name(a.domain), Name(a.dataset)>>

\* C16: save_curated(domain, dataset, table, date) into an empty dataset
\* followed by load_curated(domain, dataset) yields a table with the row
\* count and the column set of the table written
C16_LakeRoundTrip ==
    (SavedThenLoaded /\ RglobParquet(prev.before, DatasetDir(call.a)) = {})
       => /\ outcome.kind = "return"
          /\ outcome.x.df.rows = prev.a.df.rows
          /\ outcome.x.df.cols = prev.a.df.cols

\* C16 witness: the table under a named index came back with its two rows
\* and two columns under a fresh index
C16_Witness ==
    /\ SavedThenLoaded
    /\ RglobParquet(prev.before, DatasetDir(call.a)) = {}
    /\ prev.a.df = small_dataframe
    /\ outcome.x.df.rows = 2
    /\ outcome.x.df.cols = {"date", "value"}
    /\ \A p \in DOMAIN outcome.x.parts : outcome.x.parts[p].index = "range"

\* the last call was a save_curated that returned a path
CuratedSaved == call.op = "save_curated" /\ outcome.kind = "return"

\* <domain>/<dataset>/year=<Y>/month=<M>/<base_name>_<YYYYMMDD>.parquet
PartitionPath(a) ==
    <<Name(a.domain), Name(a.dataset),
      Seg("year=", Digits(a.date.year), ""),
      Seg("month=", Digits(a.date.month), ""),
      Seg(a.filename,
          Digits(a.date.year * 10000 + a.date.month * 100 + a.date.day),
          ".parquet")>>

\* rows that load_curated returns for the dataset of call a on tree
LoadedRows(tree, a) == LoadCurated(tree, a.domain, a.dataset).ret.df.rows

\* C17: save_curated returns the path <domain>/<dataset>/year=<Y>/
\* month=<M>/<base_name>_<YYYYMMDD>.parquet, which depends on (domain,
\* dataset, partition_date, base_name) only; a call with the four values of
\* an earlier call replaces the file: no file is added, the content at the
\* path is the last table written, and load_curated returns the rows of the
\* other files and of the last table, none of the earlier table
C17_CuratedOverwrite ==
    CuratedSaved =>
       /\ outcome.x = PartitionPath(call.a)
       /\ curated_dir.files[outcome.x] = ToParquet(call.a.df)
       /\ Exists(call.before, outcome.x) =>
             /\ DOMAIN curated_dir.files = DOMAIN call.before.files
             /\ \A p \in DOMAIN call.before.files \ {outcome.x} :
                   curated_dir.files[p] = call.before.files[p]
             /\ LoadedRows(curated_dir, call.a)
                   = LoadedRows(call.before, call.a)
                     - call.before.files[outcome.x].rows + call.a.df.rows

\* C17 witness: the five-row table at a path was replaced by the two-row
\* table; one file exists and load_curated returns two rows
C17_Witness ==
    /\ CuratedSaved
    /\ Exists(call.before, outcome.x)
    /\ call.before.files[outcome.x] = ToParquet(sample_dataframe)
    /\ call.a.df = small_dataframe
    /\ Cardinality(DOMAIN curated_dir.files) = 1
    /\ LoadedRows(curated_dir, call.a) = 2

\* the files stored under the dataset of call a
Artifacts(a) ==
    {p \in DOMAIN curated_dir.files :
        p[1] = Name(a.domain) /\ p[2] = Name(a.dataset)}

DatasetEntries ==
    {[domain |-> p[1], dataset |-> p[2],
      file_count |-> Cardinality({q \in DOMAIN curated_dir.files :
                                     q[1] = p[1] /\ q[2] = p[2]})] :
        p \in DOMAIN curated_dir.files}

Listed ==
    {[domain |-> e.domain, dataset |-> e.dataset,
      file_count |-> e.file_count] : e \in outcome.x}

\* C20: list_datasets() returns exactly one entry per (domain, dataset)
\* directory holding at least one curated artifact, with file_count the
\* number of its artifacts; list_datasets(domain = d) returns the entries
\* of the datasets of domain d, each with domain d and its dataset's name
C20_ListDatasets ==
    call.op = "list_datasets" =>
       /\ Cardinality(outcome.x) = Cardinality(Listed)
       /\ IF call.a.domain.none
          THEN Listed = DatasetEntries
          ELSE Listed = {e \in DatasetEntries :
                            e.domain = Name(call.a.domain.name)}


(***************************************************************************)
(* Specification of the raw tree: save_raw calls, one at a time            *)
(***************************************************************************)
CallSaveRaw == DoSaveRaw(MaxRawSaves)

NextRaw == CallSaveRaw

SpecRaw == InitLake /\ [][NextRaw]_vars

\* the last call was a save_raw that returned a path
RawSaved == call.op = "save_raw" /\ outcome.kind = "return"

\* the path, the directories and the content that save_raw must produce
RawWritten ==
    /\ outcome.x = <<Name(call.a.source),
                     Seg("", Digits(call.a.date.year), ""),
                     Seg("", Digits(call.a.date.month), ""),
                     call.a.filename>>
    /\ \A k \in 1..3 : SubSeq(outcome.x, 1, k) \in raw_dir.dirs
    /\ raw_dir.files[outcome.x] = call.a.content

\* C18 as stated: save_raw writes content to <source>/<year>/<month>/
\* <filename>, and a call with the source, filename and month of an
\* existing file overwrites it, so that no second file appears
C18_Original ==
    RawSaved =>
       /\ RawWritten
       /\ (\E p \in DOMAIN call.before.files :
              /\ p[1] = Name(call.a.source) /\ p[4] = call.a.filename
              /\ p[3].num = Digits(call.a.date.month))
             => DOMAIN raw_dir.files = DOMAIN call.before.files

\* C18 (amended): save_raw(source, filename, content, date) writes to
\* <source>/<year>/<month>/<filename> below the raw root, year and month
\* unpadded, creates the missing directories, returns that path and leaves
\* the file's contents equal to content; a call with the source, filename,
\* year and month of an existing file overwrites it and adds no file, and
\* a call with another year or month adds a file
C18_RawPartitioning ==
    RawSaved =>
       /\ outcome.x = <<Name(call.a.source),
                        Seg("", Digits(call.a.date.year), ""),
                        Seg("", Digits(call.a.date.month), ""),
                        call.a.filename>>
       /\ Len(outcome.x[3].num) = (IF call.a.date.month < 10 THEN 1 ELSE 2)
       /\ \A k \in 1..3 : SubSeq(outcome.x, 1, k) \in raw_dir.dirs
       /\ raw_dir.files[outcome.x] = call.a.content
       /\ DOMAIN raw_dir.files = DOMAIN call.before.files \cup {outcome.x}
       /\ \A p \in DOMAIN call.before.files \ {outcome.x} :
             raw_dir.files[p] = call.before.files[p]
       /\ (\E p \in DOMAIN call.before.files :
              /\ p[1] = Name(call.a.source) /\ p[4] = call.a.filename
              /\ p[2].num = Digits(call.a.date.year)
              /\ p[3].num = Digits(call.a.date.month))
             <=> DOMAIN raw_dir.files = DOMAIN call.before.files

\* C18 witness: save_raw("src", "f.txt", content, date(2024, 3, 5)) wrote to
\* src/2024/3/f.txt over other content, next to the file of another month
C18_Witness ==
    /\ RawSaved
    /\ call.a.date = Date(2024, 3, 5)
    /\ outcome.x[2].num = <<2, 0, 2, 4>> /\ outcome.x[3].num = <<3>>
    /\ Exists(call.before, outcome.x)
    /\ call.before.files[outcome.x] # call.a.content
    /\ raw_dir.files[outcome.x] = call.a.content
    /\ Cardinality(DOMAIN raw_dir.files) = 2


(***************************************************************************)
(* Source connectors: fetch(dataset, period_start, period_end)             *)
(***************************************************************************)
Connectors == {"BCB_SGS", "B3", "CVM", "FRED"}

\* SERIES_MAP.keys() / self.datasets of each connector
ConnectorDatasets(c) ==
    CASE c = "BCB_SGS" -> {"selic_meta", "ipca", "usd_brl", "unemployment",
                           "industrial_production"}
      [] c = "B3"      -> {"cotahist", "etf_list", "fii_list"}
      [] c = "CVM"     -> {"dfp", "itr", "companies", "funds"}
      [] c = "FRED"    -> {"unemployment_rate", "cpi", "unemployment_level",
                           "nonfarm_payroll", "gdp"}

\* dataset arguments: every listed id and one that no connector lists
FetchDatasets ==
    UNION {ConnectorDatasets(c) : c \in Connectors} \cup {"unknown_id"}

\* the placeholder columns hold ["A", "B", "C"] * 5 values
SAMPLE_ROWS == 15

\* number of days in date_range(period_start, period_end)
PeriodDays == {1, SAMPLE_ROWS, 31}

\* what http_client.get(...) and response.json() can do
HttpReplies == {"raises", "not_json", "no_key", "rows", "malformed"}

FetchResult(st, n, m) == [status |-> st, rows |-> n, metadata |-> m]

\* except Exception as e: return {"data": pd.DataFrame(), "metadata": {"error": str(e)}, "status": "error"}
ErrorResult(m) == FetchResult("error", 0, m)

\* the body that BCBSGSConnector.fetch and FREDConnector.fetch share once the
\* series id is known: request, parse, build the frame
SeriesFetch(reply) ==
    CASE reply = "raises"    -> ErrorResult("exception")
      [] reply = "not_json"  -> ErrorResult("exception")
      [] reply = "no_key"    -> FetchResult("no_data", 0, "info")
      [] reply = "malformed" -> ErrorResult("exception")
      [] reply = "rows"      -> FetchResult("success", 2, "series")

\* BCBSGSConnector.fetch
BCBFetch(dataset, reply) ==
    IF dataset \notin ConnectorDatasets("BCB_SGS") THEN ErrorResult("unknown")
    ELSE SeriesFetch(reply)

\* FREDConnector.fetch
FREDFetch(dataset, reply) ==
    IF ~api_key THEN ErrorResult("no_api_key")
    ELSE IF dataset \notin ConnectorDatasets("FRED") THEN ErrorResult("unknown")
    ELSE SeriesFetch(reply)

\* pd.DataFrame({"date": date_range(start, end), <columns of 15 values>}):
\* the constructor raises ValueError unless the range has 15 days
PlaceholderFrame(days, m) ==
    IF days = SAMPLE_ROWS THEN FetchResult("success", days, m)
    ELSE ErrorResult("exception")

\* B3Connector.fetch; comparable = the row filter can compare the date
\* column with period_start and period_end (it raises TypeError otherwise)
B3Fetch(dataset, days, comparable) ==
    CASE dataset = "cotahist" ->
            IF comparable THEN PlaceholderFrame(days, "cotahist")
            ELSE ErrorResult("exception")
      [] dataset = "etf_list" -> FetchResult("success", 3, "etf_list")
      [] dataset = "fii_list" -> FetchResult("success", 3, "fii_list")
      [] OTHER -> ErrorResult("unknown")

\* CVMConnector.fetch: the dataset name is only copied into the metadata
CVMFetch(dataset, days) == PlaceholderFrame(days, dataset)

\* the four connectors are built; FRED_API_KEY is set or not
InitConnector ==
    /\ now = 0
    /\ max_requests = 1 /\ requests = <<>> /\ admitted = <<>> /\ sleep_time = 0
    /\ last_request_time = 0
    /\ max_retries = 3 /\ base_delay = 1000 /\ max_delay = 60000
    /\ has_cache = FALSE /\ enabled = FALSE /\ files = <<>>
    /\ default_ttl = 0
    /\ IdleCall
    /\ nticks = 0
    /\ EmptyLake
    /\ api_key \in BOOLEAN /\ token = 0 /\ token_expires_at = 0 /\ issued = 0
    /\ remote = <<>> /\ thr = <<>>
    /\ sources_to_ingest = <<>> /\ src_idx = 0
    /\ success_count = 0 /\ error_count = 0

\* result = connector.fetch(dataset, period_start, period_end)
ConnectorFetch ==
    /\ \E c \in Connectors, ds \in FetchDatasets, days \in PeriodDays,
          reply \in HttpReplies, comparable \in BOOLEAN :
          /\ call' = [op |-> "connector_fetch", connector |-> c, dataset |-> ds,
                      days |-> days]
          /\ outcome' =
               [kind |-> "return",
                x |-> CASE c = "BCB_SGS" -> BCBFetch(ds, reply)
                        [] c = "B3"      -> B3Fetch(ds, days, comparable)
                        [] c = "CVM"     -> CVMFetch(ds, days)
                        [] c = "FRED"    -> FREDFetch(ds, reply)]
    /\ UNCHANGED <<now, limiterVars, last_request_time, retryCfg, cacheCfg, lakeVars,
                   appVars, files, pc, attempt, last_exception, data,
                   trace, sleeps, pre, prev, ncalls, nticks>>

NextConnector == ConnectorFetch

SpecConnector == InitConnector /\ [][NextConnector]_vars

FetchStatuses == {"success", "error", "no_data"}

\* C23: every fetch of every connector returns (never raises) a result with
\* a status among success, error and no_data, and the status is error
\* whenever the dataset id is not one the connector lists.
C23_ConnectorContract ==
    call.op = "connector_fetch" =>
        /\ outcome.kind = "return"
        /\ outcome.x.status \in FetchStatuses
        /\ call.dataset \notin ConnectorDatasets(call.connector)
              => outcome.x.status = "error"

(***************************************************************************)
(* The ingest command: one pass over the sources                           *)
(***************************************************************************)

\* config["sources"] as sources.yml can list them, in file order
SourceConfigs ==
    {<<"bcb", "b3", "cvm", "fred", "world_bank", "anbima">>,
     <<"anbima", "cvm", "bcb">>,
     <<"fred">>}

\* --source: absent (None), or a name, which need not be a configured one
SourceOptions == {"", "bcb", "cvm", "anbima", "nope"}

Range(q) == {q[k] : k \in 1..Len(q)}

\* faulty variant: world_bank falls through to "not yet implemented"
DispatchNoWorldBank(s) ==
    CASE s = "bcb"  -> <<"ingest_bcb_series">>
      [] s = "b3"   -> <<"ingest_b3_cotahist">>
      [] s = "cvm"  -> <<"ingest_cvm_dfp", "ingest_cvm_itr">>
      [] s = "fred" -> <<"ingest_fred_series">>
      [] OTHER      -> <<>>

\* the if/elif chain: the pipeline functions run for a source, in order;
\* none for a source whose pipeline is "not yet implemented"
Dispatch(s) ==
    CASE s = "bcb"        -> <<"ingest_bcb_series">>
      [] s = "b3"         -> <<"ingest_b3_cotahist">>
      [] s = "cvm"        -> <<"ingest_cvm_dfp", "ingest_cvm_itr">>
      [] s = "fred"       -> <<"ingest_fred_series">>
      [] s = "world_bank" -> <<"ingest_world_bank_indicators">>
      [] OTHER            -> <<>>

InitCli ==
    /\ InitLimiter
    /\ max_requests = 1

\* the command starts: --source or --all is given, the config is loaded and
\* the counters are zeroed
CliIngest ==
    /\ pc = "idle"
    /\ \E config \in SourceConfigs, source \in SourceOptions, all_sources \in BOOLEAN :
          /\ source # "" \/ all_sources
          /\ call' = [op |-> "ingest", config |-> config, source |-> source]
          /\ sources_to_ingest' = IF source # "" THEN <<source>> ELSE config
    /\ src_idx' = 1
    /\ success_count' = 0 /\ error_count' = 0
    /\ trace' = <<>>
    /\ pc' = "sources"
    /\ UNCHANGED <<now, limiterVars, last_request_time, retryCfg, cacheCfg, lakeVars,
                   api_key, authVars, remote, thr, files, attempt, last_exception, data,
                   outcome, sleeps, pre, prev, ncalls, nticks>>

\* one iteration of "for src in sources_to_ingest"; failing = how many of
\* the source's pipeline functions return before one raises (all return
\* when failing exceeds their number)
CliSource ==
    /\ pc = "sources" /\ src_idx <= Len(sources_to_ingest)
    /\ LET src == sources_to_ingest[src_idx]
           fns == Dispatch(src)
       IN  \E failing \in 1..3 :
             IF src \notin Range(call.config)
             THEN /\ trace' = Append(trace, Ev("unknown", src))
                  /\ UNCHANGED <<success_count, error_count>>
             ELSE IF fns = <<>>
             THEN /\ trace' = Append(trace, Ev("not_implemented", src))
                  /\ UNCHANGED <<success_count, error_count>>
             ELSE IF failing > Len(fns)
             THEN /\ trace' = Append(trace, Ev("complete", src))
                  /\ success_count' = success_count + 1
                  /\ UNCHANGED error_count
             ELSE /\ trace' = Append(trace, Ev("failed", src))
                  /\ error_count' = error_count + 1
                  /\ UNCHANGED success_count
    /\ src_idx' = src_idx + 1
    /\ UNCHANGED <<now, limiterVars, last_request_time, retryCfg, cacheCfg, lakeVars,
                   api_key, authVars, remote, thr, sources_to_ingest, files, pc, call, attempt,
                   last_exception, data, outcome, sleeps, pre, prev, ncalls, nticks>>

\* the loop is over: console.print(Summary ... Successful ... Failed ...)
CliSummary ==
    /\ pc = "sources" /\ src_idx > Len(sources_to_ingest)
    /\ outcome' = [kind |-> "summary", successful |-> success_count,
                   failed |-> error_count]
    /\ pc' = "done"
    /\ UNCHANGED <<now, limiterVars, last_request_time, retryCfg, cacheCfg, lakeVars,
                   appVars, files, call, attempt, last_exception, data,
                   trace, sleeps, pre, prev, ncalls, nticks>>

NextCli == CliIngest \/ CliSource \/ CliSummary

SpecCli == InitCli /\ [][NextCli]_vars

\* the sources for which the command has a pipeline
ImplementedSources == {"bcb", "b3", "cvm", "fred", "world_bank"}

\* the listed sources that are configured and have a pipeline
Attempted ==
    {k \in 1..Len(sources_to_ingest) :
        /\ sources_to_ingest[k] \in Range(call.config)
        /\ sources_to_ingest[k] \in ImplementedSources}

\* C24: the sources are visited in list order whatever the earlier ones did,
\* a failure included; when the loop is over every listed source has been
\* visited, success_count + error_count is the number of listed sources that
\* are configured and have a pipeline, and the summary printed shows the two
\* counters.
C24_PartialFailures ==
    pc \in {"sources", "done"} =>
        /\ Len(trace) = src_idx - 1
        /\ \A k \in 1..Len(trace) : trace[k].x = sources_to_ingest[k]
        /\ \A k \in 1..Len(trace) :
              trace[k].ev \in {"complete", "failed"} <=> k \in Attempted
        /\ pc = "done" =>
              /\ Len(trace) = Len(sources_to_ingest)
              /\ success_count + error_count = Cardinality(Attempted)
              /\ error_count = Count("failed")
              /\ outcome = [kind |-> "summary", successful |-> success_count,
                            failed |-> error_count]

\* C24 witness: the first source failed, a later one completed and one had
\* no pipeline, and the summary was printed
C24_Witness ==
    /\ pc = "done"
    /\ Len(trace) >= 3
    /\ trace[1].ev = "failed"
    /\ success_count >= 1 /\ error_count >= 2
    /\ Count("not_implemented") = 1

(***************************************************************************)
(* Specification of DelayedRequester on its own                            *)
(***************************************************************************)
MaxSleeps == 3             \* DelayedRequester.sleep calls in one behaviour

\* values of random.uniform(self.min_delay, self.max_delay), ms
DelayerDraws == {MIN_DELAY_MS, 1500, 2250, MAX_DELAY_MS}

InitDelayer == InitLimiter /\ max_requests = 1

\* d = delayer.sleep(); the value returned is kept in data and in the trace
DelayerSleep ==
    /\ ncalls < MaxSleeps
    /\ ncalls' = ncalls + 1
    /\ \E d \in DelayerDraws :
          /\ delayer_sleep(d)
          /\ data' = [t |-> "float", v |-> d, n |-> 0]
          /\ trace' = Append(trace, Ev("sleep", d))
    /\ UNCHANGED <<limiterVars, retryCfg, cacheCfg, lakeVars, appVars, files, pc,
                   call, attempt, last_exception, outcome, sleeps, pre, prev,
                   nticks>>

NextDelayer == DelayerSleep \/ TickL

SpecDelayer == InitDelayer /\ [][NextDelayer]_vars

C25_SleepStep == ncalls' = ncalls + 1

\* C25: each DelayedRequester.sleep() call sleeps for one duration d with
\* min_delay <= d <= max_delay and returns that d, whatever the earlier
\* calls drew and whenever they ran.
C25_JitteredDelay ==
    [][C25_SleepStep =>
          /\ data'.v >= MIN_DELAY_MS /\ data'.v <= MAX_DELAY_MS
          /\ now' - now = data'.v
          /\ last_request_time' = now']_vars

\* C25 witness: after a call that slept max_delay and a pause, a later call
\* slept min_delay
C25_Witness ==
    /\ Len(trace) = 3
    /\ trace[2].x = MAX_DELAY_MS
    /\ trace[3].x = MIN_DELAY_MS /\ data.v = MIN_DELAY_MS
    /\ now > 60000
    /\ last_request_time = now

(***************************************************************************)
(* APICache.clear                                                          *)
(***************************************************************************)
MaxClearSets  == 2         \* cache.set calls in one behaviour with clear
MaxClearTicks == 2         \* clock advances in one behaviour with clear

\* cache_file.stat().st_mtime: set writes the file at the instant it stamps
\* created_at
Mtime(f) == FromIsoFormat(f.created_at)

\* faulty variant: a file written exactly at the cutoff is kept as well
KeptByCutoffInclusive(f, older, t) == Mtime(f) >= t - HoursToMs(older)

\* if file_time > cutoff_time: continue, with
\* cutoff_time = datetime.now() - timedelta(hours=older_than_hours)
KeptByCutoff(f, older, t) == Mtime(f) > t - HoursToMs(older)

\* APICache.clear(older_than_hours) at clock t on directory fs; older = 0
\* stands for the falsy arguments None and 0, for which no cutoff is set
CacheClear(fs, older, t) ==
    LET deleted == {k \in DOMAIN fs :
                       /\ fs[k].st # "absent"
                       /\ older = 0 \/ ~KeptByCutoff(fs[k], older, t)}
    IN  [ret   |-> Cardinality(deleted),
         files |-> [k \in DOMAIN fs |-> IF k \in deleted THEN NoFile ELSE fs[k]]]

ClearIds      == {Ident(1, PNone), Ident(1, PDict(<<>>)), Ident(2, PDict(<<ItemA>>))}
ClearPayloads == {PyDict(1), PyDict(2)}
ClearHours    == {0, 1, 2}

InitClear == InitCache /\ enabled

CallCacheSetC == DoCacheSet(ClearIds, ClearPayloads, MaxClearSets)

\* n = cache.clear() / cache.clear(older_than_hours = h)
CallCacheClear ==
    /\ pc = "idle"
    /\ \E h \in ClearHours :
         LET r == CacheClear(files, h, now)
         IN  /\ files' = r.files
             /\ outcome' = [kind |-> "return", x |-> [t |-> "int", v |-> r.ret, n |-> 0]]
             /\ call' = [op |-> "clear", older |-> h, before |-> files, at |-> now]
    /\ Shift
    /\ UNCHANGED <<now, limiterVars, last_request_time, retryCfg, cacheCfg, lakeVars, appVars,
                   pc, attempt, last_exception, data, trace, sleeps, pre,
                   ncalls, nticks>>

\* time passes between two cache calls
TickCl ==
    /\ nticks < MaxClearTicks
    /\ nticks' = nticks + 1
    /\ \E d \in {1, HoursToMs(1)} : now' = now + d
    /\ UNCHANGED <<limiterVars, last_request_time, retryCfg, cacheCfg, lakeVars, appVars, files,
                   callVars>>

NextClear == CallCacheSetC \/ CallCacheClear \/ TickCl

SpecClear == InitClear /\ [][NextClear]_vars

\* clear has just returned
Cleared == call.op = "clear" /\ call.at = now

\* the entries in the directory before the clear, and those it removed
EntriesBefore == {k \in DOMAIN call.before : call.before[k].st # "absent"}
Removed       == {k \in EntriesBefore : files[k].st = "absent"}

\* the identities whose entry the clear left in place
LeftIds ==
    {id \in ClearIds : CacheKey(id.url, id.params) \in EntriesBefore \ Removed}

\* what clear removes and returns, and that it touches nothing else
ClearRemoves ==
    /\ outcome.x.v = Cardinality(Removed)
    /\ \A k \in DOMAIN files : k \notin Removed => files[k] = call.before[k]
    /\ call.older = 0 =>
          /\ Removed = EntriesBefore
          /\ \A id \in ClearIds : CacheGet(files, id.url, id.params, now).ret = None
    /\ call.older > 0 =>
          Removed = {k \in EntriesBefore :
                        now - Mtime(call.before[k]) >= HoursToMs(call.older)}

\* C26 as stated: ... and get returns the payload of every entry that
\* clear(older_than_hours = N) left
C26_Original ==
    Cleared =>
        /\ ClearRemoves
        /\ \A id \in LeftIds :
              CacheGet(files, id.url, id.params, now).ret
                  = JsonLoads(call.before[CacheKey(id.url, id.params)].data)

\* C26: clear() removes every entry and returns their number, after which
\* get returns absent for every identity; clear(older_than_hours = N), N > 0,
\* removes exactly the entries written at least N hours ago and returns
\* their number; every newer entry is left as it was, and get returns its
\* payload unless the entry has outlived the TTL.
C26_CacheClear ==
    Cleared =>
        /\ ClearRemoves
        /\ \A id \in LeftIds :
              LET f == call.before[CacheKey(id.url, id.params)]
              IN  CacheGet(files, id.url, id.params, now).ret
                      = IF now - Mtime(f) > default_ttl THEN None
                        ELSE JsonLoads(f.data)

\* C26 witness: clear(older_than_hours = 1) removed the one entry written
\* exactly an hour before and left a newer one, which get returns
C26_Witness ==
    /\ Cleared /\ call.older = 1
    /\ outcome.x.v = 1
    /\ \E k \in Removed : now - Mtime(call.before[k]) = HoursToMs(1)
    /\ \E id \in LeftIds : CacheGet(files, id.url, id.params, now).ret = PyDict(2)

(***************************************************************************)
(* GoogleDriveConnector (authenticated): upload_file and sync_directory    *)
(***************************************************************************)
MaxSyncs == 2              \* sync_directory calls in one behaviour

\* a local file: its folder and name below local_dir, its bytes, its size
LocalFile(folder, name, content) ==
    [folder |-> folder, name |-> name, content |-> content, size |-> content]

\* list(local_dir.rglob("*.parquet")) for the directories that are synced
LocalDirs ==
    {<<LocalFile("market_data", "a.parquet", 1)>>,
     <<LocalFile("market_data", "a.parquet", 2)>>,
     <<LocalFile("macro", "b.parquet", 1)>>,
     <<LocalFile("market_data", "a.parquet", 1), LocalFile("macro", "a.parquet", 1)>>,
     <<LocalFile("macro", "b.parquet", 2), LocalFile("market_data", "a.parquet", 2)>>}

\* the remote files and folders are remote[1], remote[2], ...: the id is the
\* index; folder is the name of the parent folder ("" for self.folder_id)
RemoteFile(f) ==
    [folder |-> f.folder, name |-> f.name, content |-> f.content, mime |-> "file"]

RemoteFolder(name) ==
    [folder |-> "", name |-> name, content |-> 0, mime |-> "folder"]

\* ensure_folder_exists(folder_name, self.folder_id): the id of the folder,
\* which is created when the listing does not show it
EnsureFolderExists(rem, name) ==
    LET ids == {k \in 1..Len(rem) : rem[k] = RemoteFolder(name)}
    IN  IF ids # {}
        THEN [ret |-> CHOOSE k \in ids : \A j \in ids : k <= j, remote |-> rem]
        ELSE [ret |-> Len(rem) + 1, remote |-> Append(rem, RemoteFolder(name))]

\* find_remote_file(name, parent_id): the id of a file of that name in the
\* folder, or None (0)
FindRemoteFile(rem, name, folder) ==
    LET ids == {k \in 1..Len(rem) : rem[k].name = name /\ rem[k].folder = folder}
    IN  IF ids = {} THEN 0 ELSE CHOOSE k \in ids : \A j \in ids : k <= j

\* upload_file(file_path, remote_path, dry_run); ok = the upload request
\* succeeds (when it raises, the except clause returns None)
UploadFile(rem0, f, dry_run, ok) ==
    LET rem == EnsureFolderExists(rem0, f.folder).remote
        existing_file_id == FindRemoteFile(rem, f.name, f.folder)
    IN  IF existing_file_id # 0
        THEN [ret |-> existing_file_id, remote |-> rem]
        ELSE IF dry_run THEN [ret |-> 0, remote |-> rem]
        ELSE IF ~ok THEN [ret |-> 0, remote |-> rem]
        ELSE [ret |-> Len(rem) + 1, remote |-> Append(rem, RemoteFile(f))]

NoStats == [uploaded |-> 0, skipped |-> 0, errors |-> 0, total_size |-> 0,
            files |-> <<>>]

\* the loop of sync_directory over the files fl, from statistics st on
\* remote rem; rets collects what upload_file returned for each file
RECURSIVE SyncFiles(_, _, _, _, _, _)
SyncFiles(fl, rem, st, rets, dry_run, failing) ==
    IF fl = <<>> THEN [stats |-> st, remote |-> rem, rets |-> rets]
    ELSE LET f  == Head(fl)
             r  == UploadFile(rem, f, dry_run, f \notin failing)
             s1 == IF r.ret # 0
                   THEN [st EXCEPT !.uploaded = @ + 1,
                                   !.files = Append(@, [name |-> <<f.folder, f.name>>,
                                                        size |-> f.size,
                                                        file_id |-> r.ret])]
                   ELSE [st EXCEPT !.skipped = @ + 1]
             s2 == [s1 EXCEPT !.total_size = @ + f.size]
         IN  SyncFiles(Tail(fl), r.remote, s2, Append(rets, r.ret), dry_run, failing)

\* sync_directory(local_dir, remote_prefix, dry_run)
SyncDirectory(rem, fl, dry_run, failing) ==
    SyncFiles(fl, rem, NoStats, <<>>, dry_run, failing)

InitDrive == InitLimiter /\ max_requests = 1

\* stats = drive.sync_directory(local_dir, dry_run = dry_run)
CallSyncDirectory ==
    /\ ncalls < MaxSyncs
    /\ ncalls' = ncalls + 1
    /\ \E fl \in LocalDirs, dry_run \in BOOLEAN : \E failing \in SUBSET Range(fl) :
          LET r == SyncDirectory(remote, fl, dry_run, failing)
          IN  /\ remote' = r.remote
              /\ call' = [op |-> "sync", local |-> fl, dry_run |-> dry_run,
                          before |-> remote, rets |-> r.rets]
              /\ outcome' = [kind |-> "return", x |-> r.stats]
    /\ UNCHANGED <<now, limiterVars, last_request_time, retryCfg, cacheCfg, lakeVars,
                   api_key, authVars, thr, cliVars, files, pc, attempt, last_exception, data,
                   trace, sleeps, pre, prev, nticks>>

NextDrive == CallSyncDirectory

SpecDrive == InitDrive /\ [][NextDrive]_vars

\* the local files of the last sync whose name was in their remote folder
\* before the sync
ExistedRemotely ==
    {k \in 1..Len(call.local) :
        \E j \in 1..Len(call.before) :
            /\ call.before[j].name = call.local[k].name
            /\ call.before[j].folder = call.local[k].folder}

\* C27: in sync_directory a local file whose name is already in its remote
\* folder is not uploaded, whatever its content, upload_file returns None
\* for it and it is counted under skipped; uploaded is the number of files
\* uploaded in this run.
C27_SkipByName ==
    call.op = "sync" =>
        /\ \A k \in ExistedRemotely :
              /\ call.rets[k] = 0
              /\ \A j \in Len(call.before) + 1..Len(remote) :
                    ~(/\ remote[j].name = call.local[k].name
                      /\ remote[j].folder = call.local[k].folder)
        /\ outcome.x.skipped >= Cardinality(ExistedRemotely)
        /\ outcome.x.uploaded
              = Cardinality({j \in Len(call.before) + 1..Len(remote) :
                                remote[j].mime = "file"})

\* C38: sync_directory with dry_run = true performs no mutating request
\* against the remote store, neither a file upload nor a folder creation,
\* for any local directory tree
C38_DryRunNoMutation ==
    (call.op = "sync" /\ call.dry_run) => remote = call.before

(***************************************************************************)
(* Two threads calling wait_if_needed on one RequestRateLimiter.  The      *)
(* limiter takes no lock (self.lock = None), so the statements of the two  *)
(* calls interleave; each deque operation is atomic.                       *)
(***************************************************************************)
MaxRaceAdmits == 3         \* wait_if_needed calls in one behaviour
MaxRaceTicks  == 2         \* clock advances in one behaviour

RaceThreads == {1, 2}

\* the locals of one thread's call: its position, its first clock reading,
\* its sleep_time, the window it saw at the capacity check, the timestamp it
\* appended, and whether it has completed a call
ThreadIdle == [pc |-> "idle", now |-> 0, sleep_time |-> 0, seen |-> <<>>,
               stamp |-> 0, done |-> FALSE]

InitRace ==
    /\ now = 0
    /\ max_requests \in 1..2
    /\ requests = <<>> /\ admitted = <<>> /\ sleep_time = 0
    /\ last_request_time = 0
    /\ max_retries = 3 /\ base_delay = 1000 /\ max_delay = 60000
    /\ has_cache = FALSE /\ enabled = FALSE /\ files = <<>>
    /\ default_ttl = 0
    /\ IdleCall
    /\ nticks = 0
    /\ EmptyLake
    /\ api_key = FALSE /\ token = 0 /\ token_expires_at = 0 /\ issued = 0
    /\ remote = <<>>
    /\ thr = [th |-> [i \in RaceThreads |-> ThreadIdle], overlapped |-> FALSE]
    /\ sources_to_ingest = <<>> /\ src_idx = 0
    /\ success_count = 0 /\ error_count = 0

raceFrame == <<last_request_time, retryCfg, cacheCfg, lakeVars, api_key, authVars, remote,
               cliVars, files, callVars, nticks>>

Running == {i \in RaceThreads : thr.th[i].pc # "idle"}

\* thread i enters wait_if_needed: now = time.time()
RaceEnter(i) ==
    /\ thr.th[i].pc = "idle"
    /\ Len(admitted) + Cardinality(Running) < MaxRaceAdmits
    /\ thr' = [th |-> [thr.th EXCEPT ![i] =
                          [pc |-> "evict", now |-> now, sleep_time |-> 0,
                           seen |-> <<>>, stamp |-> 0, done |-> FALSE]],
               overlapped |-> thr.overlapped \/ Running # {}]
    /\ UNCHANGED <<now, limiterVars, raceFrame>>

\* while self.requests and self.requests[0] < now - 60: popleft()
RaceEvict(i) ==
    /\ thr.th[i].pc = "evict"
    /\ requests' = Evict(requests, thr.th[i].now)
    /\ thr' = [thr EXCEPT !.th[i].pc = "check"]
    /\ UNCHANGED <<now, max_requests, admitted, sleep_time, raceFrame>>

\* sleep_time = 0.0; if len(self.requests) >= self.max_requests: sleep_time = ...
RaceCheck(i) ==
    /\ thr.th[i].pc = "check"
    /\ LET w == WaitFor(requests, thr.th[i].now)
       IN  thr' = [thr EXCEPT !.th[i].pc = IF w > 0 THEN "sleep" ELSE "append",
                              !.th[i].sleep_time = w,
                              !.th[i].seen = requests]
    /\ UNCHANGED <<now, limiterVars, raceFrame>>

\* time.sleep(sleep_time) returns once the clock has advanced that far
RaceWake(i) ==
    /\ thr.th[i].pc = "sleep"
    /\ now >= thr.th[i].now + thr.th[i].sleep_time
    /\ thr' = [thr EXCEPT !.th[i].pc = "append"]
    /\ UNCHANGED <<now, limiterVars, raceFrame>>

\* self.requests.append(time.time()); return sleep_time
RaceAppend(i) ==
    /\ thr.th[i].pc = "append"
    /\ requests' = DequeAppend(requests, now, max_requests)
    /\ admitted' = Append(admitted, now)
    /\ sleep_time' = thr.th[i].sleep_time
    /\ thr' = [thr EXCEPT !.th[i].pc = "idle", !.th[i].stamp = now,
                          !.th[i].done = TRUE]
    /\ UNCHANGED <<now, max_requests, raceFrame>>

\* the clock advances: by half a minute, or to the instant a sleeper wakes
TickR ==
    /\ nticks < MaxRaceTicks
    /\ nticks' = nticks + 1
    /\ \/ now' = now + 30000
       \/ \E i \in RaceThreads :
             /\ thr.th[i].pc = "sleep"
             /\ thr.th[i].now + thr.th[i].sleep_time > now
             /\ now' = thr.th[i].now + thr.th[i].sleep_time
    /\ UNCHANGED <<limiterVars, last_request_time, retryCfg, cacheCfg, lakeVars,
                   appVars, files, callVars>>

RaceStep == \E i \in RaceThreads :
               RaceEnter(i) \/ RaceEvict(i) \/ RaceCheck(i) \/ RaceWake(i) \/ RaceAppend(i)

NextRace == RaceStep \/ TickR

SpecRace == InitRace /\ [][NextRace]_vars

\* both threads completed a call that passed the capacity check without
\* sleeping, against the same window contents, one short of full, and those
\* timestamps and the two appended ones lie within 60 seconds
PassedSameWindow ==
    /\ \A i \in RaceThreads :
          /\ thr.th[i].pc = "idle" /\ thr.th[i].done
          /\ thr.th[i].sleep_time = 0
          /\ Len(thr.th[i].seen) = max_requests - 1
    /\ thr.th[1].seen = thr.th[2].seen
    /\ \A i, j \in RaceThreads :
          /\ thr.th[i].stamp - thr.th[j].stamp <= WINDOW_MS
          /\ \A k \in 1..Len(thr.th[j].seen) :
                thr.th[i].stamp - thr.th[j].seen[k] <= WINDOW_MS

\* some 60-second window holds more than max_requests admissions
BoundExceeded == \E i \in 1..Len(admitted) : InWindow(admitted[i]) > max_requests

\* C29: wait_if_needed takes no lock: when two calls on one limiter both
\* pass the capacity check against the same window contents, more than
\* max_requests admissions fall within one 60-second window; as long as the
\* calls do not overlap the admission bound holds.
C29_LimiterRace ==
    /\ PassedSameWindow /\ thr.overlapped => BoundExceeded
    /\ ~thr.overlapped => ~BoundExceeded

\* C29 witness: two interleaved calls passed the check on the same window
\* and the bound is exceeded
C29_Witness ==
    /\ PassedSameWindow /\ thr.overlapped
    /\ max_requests = 2 /\ Len(admitted) = 3
    /\ BoundExceeded

(***************************************************************************)
(* Specification of the limiter's window: serialized wait_if_needed and    *)
(* get_current_rate calls                                                  *)
(***************************************************************************)
MaxWindowAdmits == 3       \* wait_if_needed calls in one behaviour
MaxWindowTicks  == 3       \* clock advances in one behaviour

\* one caller runs wait_if_needed to completion
AdmitW ==
    /\ Len(admitted) < MaxWindowAdmits
    /\ \E late \in Lateness : wait_if_needed(late)
    /\ UNCHANGED <<last_request_time, retryCfg, cacheCfg, lakeVars, appVars, files,
                   callVars, nticks>>

\* n = limiter.get_current_rate(): evicts, then returns len(self.requests)
GetCurrentRate ==
    /\ requests' = Evict(requests, now)
    /\ data' = [t |-> "int", v |-> Len(requests'), n |-> 0]
    /\ call' = [op |-> "get_current_rate", before |-> requests, at |-> now]
    /\ UNCHANGED <<now, max_requests, admitted, sleep_time, last_request_time,
                   retryCfg, cacheCfg, lakeVars, appVars, files, pc, attempt,
                   last_exception, outcome, trace, sleeps, pre, prev, ncalls,
                   nticks>>

\* time passes between two calls
TickW ==
    /\ \E d \in TickDeltasL : now' = now + d
    /\ nticks < MaxWindowTicks
    /\ nticks' = nticks + 1
    /\ UNCHANGED <<limiterVars, last_request_time, retryCfg, cacheCfg, lakeVars,
                   appVars, files, callVars>>

NextWindow == AdmitW \/ GetCurrentRate \/ TickW

SpecWindow == InitLimiter /\ [][NextWindow]_vars

\* C30: with serialized calls the window never holds more than max_requests
\* timestamps, they are in arrival (non-decreasing) order, and the value
\* get_current_rate returned is the number of timestamps that were no older
\* than 60 seconds when it was called.
C30_RateWindow ==
    /\ Len(requests) <= max_requests
    /\ \A i, j \in 1..Len(requests) : i <= j => requests[i] <= requests[j]
    /\ call.op = "get_current_rate" =>
          data.v = Cardinality({k \in 1..Len(call.before) :
                                   call.at - call.before[k] <= WINDOW_MS})

\* C30 witness: get_current_rate found two timestamps, one older than 60
\* seconds and one exactly 60 seconds old, and returned 1
C30_Witness ==
    /\ call.op = "get_current_rate"
    /\ Len(call.before) = 2 /\ data.v = 1
    /\ call.at - call.before[1] > WINDOW_MS
    /\ call.at - call.before[2] = WINDOW_MS
    /\ requests = <<call.before[2]>>

(***************************************************************************)
(* CachedHTTPClient: get with the client's own file cache.  files maps the *)
(* URL of a request to the cache file of its key.                          *)
(***************************************************************************)
MaxHttpGets  == 3          \* CachedHTTPClient.get calls in one behaviour
MaxHttpTicks == 2          \* clock advances between the calls

HttpUrls     == {1, 2}
HttpContents == {1, 2}     \* response.text of a 200 response

HttpNoFile      == [st |-> "absent",  timestamp |-> 0, content |-> 0]
\* what an interrupted write_text leaves: not a JSON document
HttpPartialFile == [st |-> "partial", timestamp |-> 0, content |-> 0]
HttpEntry(t, c) == [st |-> "entry",   timestamp |-> t, content |-> c]

JSONDecodeError  == [t |-> "JSONDecodeError",  v |-> 0, n |-> 0]
OSErrorCache     == [t |-> "OSError",          v |-> 0, n |-> 0]
RequestException == [t |-> "RequestException", v |-> 0, n |-> 0]
Response(c)      == [t |-> "Response", v |-> c, n |-> 200]

\* _load_from_cache at clock t: the content returned (0 = None), whether it
\* raises, and the file afterwards
LoadFromCache(f, t) ==
    IF ~has_cache \/ f.st = "absent"
    THEN [raise |-> FALSE, content |-> 0, file |-> f]
    ELSE IF f.st = "partial"                       \* json.loads raises
    THEN [raise |-> TRUE, content |-> 0, file |-> f]
    ELSE IF t - f.timestamp > default_ttl          \* cache_file.unlink()
    THEN [raise |-> FALSE, content |-> 0, file |-> HttpNoFile]
    ELSE [raise |-> FALSE, content |-> f.content, file |-> f]

\* _save_to_cache at clock t; written = write_text completes (it raises
\* OSError otherwise, part of the text being on disk)
SaveToCache(f, c, t, written) ==
    IF ~has_cache THEN [raise |-> FALSE, file |-> f]
    ELSE IF written THEN [raise |-> FALSE, file |-> HttpEntry(t, c)]
    ELSE [raise |-> TRUE, file |-> HttpPartialFile]

\* CachedHTTPClient.get(url, use_cache = uc) at clock t on cache file f;
\* net = 0 when session.get or raise_for_status raises, else the text of the
\* 200 response
ClientGet(f, uc, net, written, t) ==
    LET l == LoadFromCache(f, t)
        w == SaveToCache(IF uc THEN l.file ELSE f, net, t, written)
    IN  IF uc /\ l.raise
        THEN [kind |-> "raise", x |-> JSONDecodeError, file |-> f, requested |-> FALSE]
        ELSE IF uc /\ l.content # 0
        THEN [kind |-> "return", x |-> Response(l.content), file |-> l.file,
              requested |-> FALSE]
        ELSE IF net = 0
        THEN [kind |-> "raise", x |-> RequestException,
              file |-> IF uc THEN l.file ELSE f, requested |-> TRUE]
        ELSE IF uc /\ w.raise
        THEN [kind |-> "raise", x |-> OSErrorCache, file |-> w.file, requested |-> TRUE]
        ELSE [kind |-> "return", x |-> Response(net),
              file |-> IF uc THEN w.file ELSE f, requested |-> TRUE]

InitHttp ==
    /\ now = 0
    /\ max_requests = 1 /\ requests = <<>> /\ admitted = <<>> /\ sleep_time = 0
    /\ last_request_time = 0
    /\ max_retries = 3 /\ base_delay = 1000 /\ max_delay = 60000
    /\ has_cache \in BOOLEAN /\ enabled = has_cache          \* cache_dir given or not
    /\ default_ttl = HoursToMs(24)                          \* cache_ttl
    /\ files = [u \in HttpUrls |-> HttpNoFile]
    /\ IdleCall
    /\ nticks = 0
    /\ EmptyLake
    /\ IdleApp

\* response = client.get(url, use_cache = uc)
HttpGet ==
    /\ pc = "idle"
    /\ ncalls < MaxHttpGets
    /\ ncalls' = ncalls + 1
    /\ \E u \in HttpUrls, uc \in BOOLEAN, net \in {0} \cup HttpContents, written \in BOOLEAN :
         LET r == ClientGet(files[u], uc, net, written, now)
         IN  /\ files' = [files EXCEPT ![u] = r.file]
             /\ outcome' = [kind |-> r.kind, x |-> r.x]
             /\ call' = [op |-> "http_get", url |-> u, use_cache |-> uc,
                         before |-> files[u], net |-> net, written |-> written,
                         requested |-> r.requested, at |-> now]
    /\ UNCHANGED <<now, limiterVars, last_request_time, retryCfg, cacheCfg, lakeVars, appVars,
                   pc, attempt, last_exception, data, trace, sleeps, pre, prev,
                   nticks>>

\* time passes between two requests
TickH ==
    /\ nticks < MaxHttpTicks
    /\ nticks' = nticks + 1
    /\ \E d \in {1, HoursToMs(24)} : now' = now + d
    /\ UNCHANGED <<limiterVars, last_request_time, retryCfg, cacheCfg, lakeVars, appVars, files,
                   callVars>>

NextHttp == HttpGet \/ TickH

SpecHttp == InitHttp /\ [][NextHttp]_vars

\* C32: in get with use_cache = true a cache file that cannot be read, parsed
\* or written never makes the request fail: a corrupt entry is a miss and the
\* network request is made, and a failed cache write still returns the
\* response to the caller
C32_BestEffortHttpCache ==
    (call.op = "http_get" /\ call.use_cache) =>
        /\ call.before.st = "partial" => call.requested
        /\ outcome.kind = "raise" => outcome.x = RequestException
        /\ (call.requested /\ call.net # 0) =>
              /\ outcome.kind = "return"
              /\ outcome.x = Response(call.net)

(***************************************************************************)
(* ANBIMAConnector: authenticate and _request under tenacity's retry.  A   *)
(* token is the number of its issue; credentials are configured.           *)
(***************************************************************************)
MaxAnbimaFetches == 2      \* fetch calls in one behaviour
MaxAnbimaTicks   == 2      \* clock advances between the calls

STOP_AFTER_ATTEMPT == 3        \* stop_after_attempt(3)
RETRY_WAIT_MS      == 2000     \* wait_exponential(multiplier=1, min=2, max=10)
EXPIRY_MARGIN_MS   == 60000    \* timedelta(seconds = expires_in - 60)

\* expires_in of the token response: 61 s, or 3600 s (the default)
ExpiresIn == {61000, 3600000}

\* status of the response to one request
Statuses == {200, 401, 500}

\* if self.token and self.token_expires_at > datetime.now()
TokenCached(tok, exp, t) == tok # 0 /\ exp > t

\* authenticate() at clock t; grant = the token endpoint answers with a
\* token (when it does not, the except clause returns False)
Authenticate(tok, exp, iss, t, grant, expires_in) ==
    IF TokenCached(tok, exp, t)
    THEN [ret |-> TRUE, token |-> tok, token_expires_at |-> exp, issued |-> iss]
    ELSE IF grant
    THEN [ret |-> TRUE, token |-> iss + 1,
          token_expires_at |-> t + expires_in - EXPIRY_MARGIN_MS,
          issued |-> iss + 1]
    ELSE [ret |-> FALSE, token |-> tok, token_expires_at |-> exp, issued |-> iss]

InitAnbima ==
    /\ InitLimiter
    /\ max_requests = 1

\* a fetch_* method: "if not self.authenticate(): return []", then _request
AnbimaFetch ==
    /\ pc = "idle"
    /\ ncalls < MaxAnbimaFetches
    /\ ncalls' = ncalls + 1
    /\ \E grant \in BOOLEAN, e \in ExpiresIn :
         LET a == Authenticate(token, token_expires_at, issued, now, grant, e)
         IN  /\ token' = a.token
             /\ token_expires_at' = a.token_expires_at
             /\ issued' = a.issued
             /\ IF a.ret
                THEN /\ pc' = "attempt" /\ attempt' = 1
                     /\ outcome' = NoOutcome
                ELSE /\ pc' = "done" /\ attempt' = 0
                     /\ outcome' = [kind |-> "return",
                                      x |-> [t |-> "list", v |-> 0, n |-> 0]]
    /\ call' = [op |-> "anbima_fetch"]
    /\ trace' = <<>>
    /\ UNCHANGED <<now, limiterVars, last_request_time, retryCfg, cacheCfg, lakeVars,
                   api_key, remote, thr, cliVars, files, last_exception, data,
                   sleeps, pre, prev, nticks>>

\* one attempt of _request: the request is sent with the headers of
\* _get_headers; a 401 calls authenticate and re-raises, and tenacity waits
\* and calls _request again unless this was the third attempt
AnbimaRequest ==
    /\ pc = "attempt" /\ call.op = "anbima_fetch"
    /\ \E status \in Statuses, grant \in BOOLEAN, e \in ExpiresIn :
         LET a == IF status = 401
                  THEN Authenticate(token, token_expires_at, issued, now, grant, e)
                  ELSE [ret |-> TRUE, token |-> token,
                        token_expires_at |-> token_expires_at, issued |-> issued]
         IN  /\ trace' = Append(trace, [ev |-> "send", token |-> token,
                                        status |-> status, at |-> now,
                                        expires_at |-> token_expires_at,
                                        grant |-> grant])
             /\ token' = a.token
             /\ token_expires_at' = a.token_expires_at
             /\ issued' = a.issued
             /\ IF status = 200
                THEN /\ outcome' = [kind |-> "return", x |-> PyDict(1)]
                     /\ pc' = "done"
                     /\ UNCHANGED <<now, attempt>>
                ELSE IF attempt = STOP_AFTER_ATTEMPT
                THEN /\ outcome' = [kind |-> "raise", x |-> Exc(status, attempt)]
                     /\ pc' = "done"
                     /\ UNCHANGED <<now, attempt>>
                ELSE /\ now' = now + RETRY_WAIT_MS
                     /\ attempt' = attempt + 1
                     /\ UNCHANGED <<outcome, pc>>
    /\ UNCHANGED <<limiterVars, last_request_time, retryCfg, cacheCfg, lakeVars,
                   api_key, remote, thr, cliVars, files, call, last_exception, data,
                   sleeps, pre, prev, ncalls, nticks>>

\* time passes between two fetches
TickA ==
    /\ pc = "idle"
    /\ nticks < MaxAnbimaTicks
    /\ nticks' = nticks + 1
    /\ \E d \in {1000, 3600000} : now' = now + d
    /\ UNCHANGED <<limiterVars, last_request_time, retryCfg, cacheCfg, lakeVars, appVars, files,
                   callVars>>

NextAnbima == AnbimaFetch \/ AnbimaRequest \/ Finish \/ TickA

SpecAnbima == InitAnbima /\ [][NextAnbima]_vars

\* C39: when an attempt of _request receives 401 (and the token endpoint is
\* ready to grant a token), the next attempt of the same request is sent
\* with a newly obtained token and not with the rejected one, also when the
\* rejected token's recorded expiry time has not passed
C39_ReauthAfter401 ==
    \A i \in 1..(Len(trace) - 1) :
        (trace[i].ev = "send" /\ trace[i].status = 401 /\ trace[i].grant)
            => /\ trace[i + 1].token # trace[i].token
               /\ trace[i + 1].token > trace[i].token

====
